---- MODULE Spec2Model ----
\* Verification model of fileai (amacinho/fileai): the document pipeline
\* (fileai/pipeline.py, fileai/file_operator.py, fileai/directory_manager.py),
\* the event driven watcher (fileai/watcher.py) and the polling monitor
\* (fileai/main.py).
EXTENDS Integers, Sequences, FiniteSets, TLC

\* ------------------------------------------------------------------ bounds
\* Number of distinct byte contents a file can hold (1..MaxContent).
MaxContent == 3

\* ------------------------------------------------------------- file system
\* A path is a record [dir, name, sfx, ext]: the directory as a sequence of
\* components, the file name without version suffixes, the version suffixes
\* appended to the stem ("_1" is 1, "_2" is 2, "_v2" is V2) and the extension.
V2 == 0

InputRoot == <<"in">>
OutputRoot == <<"out">>
UnsupportedDir == <<"out", "unsupported">>
SidecarName == "@eaDir"

NoPath == [dir |-> <<>>, name |-> "", sfx |-> <<>>, ext |-> ""]

MkPath(d, n, s, e) == [dir |-> d, name |-> n, sfx |-> s, ext |-> e]

\* Contents are 1..MaxContent; -c is a truncated (partially written) copy of c.
Contents == 1..MaxContent

IsComplete(c) == c >= 1

\* st_size: contents 1 and 2 have the same size, 3 and 4 the same size, ...;
\* a truncated copy is shorter than the file it was cut from.
SizeOf(c) == IF c >= 1 THEN 2 * ((c + 1) \div 2) ELSE 2 * (((0 - c) + 1) \div 2) - 1

\* SHA-256 of the full byte content: equal bytes give equal digests, and
\* distinct contents of the model never collide.
HashOf(c) == c

IsPrefix(s, t) == Len(s) <= Len(t) /\ SubSeq(t, 1, Len(s)) = s

\* Path.is_relative_to(root)
IsRelativeTo(p, root) == IsPrefix(root, p.dir)

Parent(d) == SubSeq(d, 1, Len(d) - 1)

\* Order of path components as Python compares the strings.
StrRank(s) ==
    CASE s = "@eaDir" -> 1
      [] s = "a" -> 2
      [] s = "b" -> 3
      [] s = "c" -> 4
      [] s = "d1" -> 5
      [] s = "d2" -> 6
      [] s = "dat" -> 7
      [] s = "in" -> 8
      [] s = "n1" -> 9
      [] s = "n2" -> 10
      [] s = "old" -> 11
      [] s = "out" -> 12
      [] s = "txt" -> 13
      [] s = "unsupported" -> 14
      [] s = "work" -> 15
      [] OTHER -> 16

RECURSIVE SeqLess(_, _, _)
\* Lexicographic order of two sequences of integers; a proper prefix is
\* smaller when shorterFirst, as "n1.txt" < "n1_1.txt" ('.' < '_').
SeqLess(s, t, shorterFirst) ==
    IF s = <<>> THEN (t # <<>> /\ shorterFirst)
    ELSE IF t = <<>> THEN ~shorterFirst
    ELSE IF Head(s) # Head(t) THEN Head(s) < Head(t)
    ELSE SeqLess(Tail(s), Tail(t), shorterFirst)

\* Path.__lt__: the parts are compared as lists of strings; among the version
\* suffixes "_1" < "_2" < ... < "_v2" (digits sort before letters).
PathLess(p, q) ==
    LET DirKey(d) == [i \in 1..Len(d) |-> StrRank(d[i])]
        SfxKey(x) == [i \in 1..Len(x) |-> IF x[i] = V2 THEN 1000 ELSE x[i]]
    IN
    IF p.dir # q.dir THEN SeqLess(DirKey(p.dir), DirKey(q.dir), TRUE)
    ELSE IF p.name # q.name THEN StrRank(p.name) < StrRank(q.name)
    ELSE IF p.sfx # q.sfx THEN SeqLess(SfxKey(p.sfx), SfxKey(q.sfx), TRUE)
    ELSE StrRank(p.ext) < StrRank(q.ext)

\* Mutant of SortedInsert: list.append(p) without the sort.
AppendUnsorted(seq, p) == Append(seq, p)

RECURSIVE SortedInsert(_, _)
\* list.append(p) followed by list.sort()
SortedInsert(seq, p) ==
    IF seq = <<>> THEN <<p>>
    ELSE IF PathLess(p, Head(seq)) THEN <<p>> \o seq
    ELSE <<Head(seq)>> \o SortedInsert(Tail(seq), p)

EmptyFn == [x \in {} |-> 0]

Put(f, k, v) == [x \in (DOMAIN f) \cup {k} |-> IF x = k THEN v ELSE f[x]]

Del(f, k) == [x \in (DOMAIN f) \ {k} |-> f[x]]

RECURSIVE SortPaths(_)
\* sorted(S) for a set of paths
SortPaths(S) ==
    IF S = {} THEN <<>>
    ELSE LET m == CHOOSE x \in S : \A y \in S \ {x} : PathLess(x, y)
         IN <<m>> \o SortPaths(S \ {m})

\* ------------------------------------------------------ DirectoryManager
\* The entries of directory d: the files in it and its sub-directories.
FilesIn(f, d) == {p \in DOMAIN f : p.dir = d}

SubDirs(ds, d) == {e \in ds : Len(e) = Len(d) + 1 /\ Parent(e) = d}

\* DirectoryManager._is_empty_dir: a directory holding only @eaDir counts
\* as empty.
IsEmptyDir(f, ds, d) ==
    /\ d \in ds
    /\ FilesIn(f, d) = {}
    /\ \A e \in SubDirs(ds, d) : e[Len(e)] = SidecarName

\* Path.rmdir succeeds only on a directory without any entry (OSError
\* otherwise).
RmdirSucceeds(f, ds, d) == FilesIn(f, d) = {} /\ SubDirs(ds, d) = {}

\* Mutant of CleanupLoop: the loop does not compare the current directory
\* with stop_path.
RECURSIVE CleanupLoopPastStop(_, _, _, _)
CleanupLoopPastStop(f, ds, cur, stop) ==
    IF cur # <<>> /\ IsEmptyDir(f, ds, cur)
    THEN IF RmdirSucceeds(f, ds, cur)
         THEN CleanupLoopPastStop(f, ds \ {cur}, Parent(cur), stop)
         ELSE ds
    ELSE ds

\* Mutant of CleanupLoop: after removing a directory the loop does not move
\* up to its parent.
CleanupLoopOneLevel(f, ds, cur, stop) ==
    IF cur # stop /\ cur # <<>> /\ IsEmptyDir(f, ds, cur) /\ RmdirSucceeds(f, ds, cur)
    THEN ds \ {cur}
    ELSE ds

\* The while loop of cleanup_empty_dirs. The log line after rmdir raises
\* ValueError for a directory that is not under stop_path, which ends the
\* loop.
RECURSIVE CleanupLoop(_, _, _, _)
CleanupLoop(f, ds, cur, stop) ==
    IF cur # stop /\ cur # <<>> /\ IsEmptyDir(f, ds, cur)
    THEN IF RmdirSucceeds(f, ds, cur)
         THEN IF IsPrefix(stop, cur)
              THEN CleanupLoop(f, ds \ {cur}, Parent(cur), stop)
              ELSE ds \ {cur}
         ELSE ds
    ELSE ds

\* DirectoryManager.cleanup_empty_dirs(start_path, stop_path): the set of
\* directories left.
CleanupEmptyDirs(f, ds, start, stop) ==
    IF start \notin ds THEN ds ELSE CleanupLoop(f, ds, start, stop)

\* ----------------------------------------------------------- FileOperator
\* FileOperator._cleanup_after_operation(file_path)
CleanupAfterOperation(f, ds, p) ==
    IF IsRelativeTo(p, InputRoot)
    THEN CleanupEmptyDirs(f, ds, p.dir, InputRoot)
    ELSE ds

\* Mutant of NextFree: the first candidate is returned without a test of its
\* existence.
NextFreeUnchecked(f, base, counter) == [base EXCEPT !.sfx = base.sfx \o <<counter>>]

RECURSIVE NextFree(_, _, _)
\* ensure_unique_path, lines 147-151: the first of stem_counter, stem_counter+1,
\* ... that does not exist.
NextFree(f, base, counter) ==
    LET cand == [base EXCEPT !.sfx = base.sfx \o <<counter>>]
    IN IF cand \notin DOMAIN f THEN cand ELSE NextFree(f, base, counter + 1)

\* Mutant of EnsureUniquePath: the existence check is dropped and the base
\* path is returned even when a file is already there.
EnsureUniquePathNoCheck(f, base) == base

\* FileOperator.ensure_unique_path(base_path)
EnsureUniquePath(f, base) ==
    IF base \notin DOMAIN f THEN base ELSE NextFree(f, base, 1)

\* FileOperator.scan_output_directory: the hash dictionary of the files under
\* the output root, each list sorted.
ScanHashDict(f) ==
    LET outs == {p \in DOMAIN f : IsRelativeTo(p, OutputRoot)}
        hs == {HashOf(f[p]) : p \in outs}
    IN [h \in hs |-> SortPaths({p \in outs : HashOf(f[p]) = h})]

ScanSizeDict(f) ==
    LET outs == {p \in DOMAIN f : IsRelativeTo(p, OutputRoot)}
    IN [p \in outs |-> SizeOf(f[p])]

\* FileOperator.find_duplicate_by_hash(file_path) against hash dictionary hd;
\* NoPath is None.
FindDuplicateByHash(f, hd, p) ==
    IF p \notin DOMAIN f THEN NoPath
    ELSE LET h == HashOf(f[p])
         IN IF h \in DOMAIN hd
            THEN LET first_match == hd[h][1]
                 IN IF first_match \in DOMAIN f /\ SizeOf(f[first_match]) = SizeOf(f[p])
                    THEN first_match
                    ELSE NoPath
            ELSE NoPath

\* FileOperator._update_hash_dict(file_path): the hash dictionary afterwards.
UpdateHashDict(f, hd, p) ==
    IF p \notin DOMAIN f THEN hd
    ELSE LET h == HashOf(f[p])
         IN Put(hd, h, SortedInsert(IF h \in DOMAIN hd THEN hd[h] ELSE <<>>, p))

UpdateSizeDict(f, sd, p) ==
    IF p \notin DOMAIN f THEN sd ELSE Put(sd, p, SizeOf(f[p]))

\* document_handlers.get_handler(extension): the handler's file_type, "none"
\* when no handler supports the extension.
GetHandler(ext) ==
    CASE ext \in {"png", "jpg", "jpeg", "gif", "bmp", "tiff", "tif", "webp"} -> "image"
      [] ext \in {"doc", "docx"} -> "document"
      [] ext \in {"xlsx"} -> "spreadsheet"
      [] ext \in {"pdf"} -> "pdf"
      [] ext \in {"txt", "text", "rtf", "csv", "tsv"} -> "text"
      [] OTHER -> "none"

\* ------------------------------------------------------------------ state
VARIABLES
    fs,                 \* the file system: path -> content of every file
    dirs,               \* the directories under the input root
    file_hash_dict,     \* FileOperator.file_hash_dict: hash -> sorted paths
    file_size_dict,     \* FileOperator.file_size_dict: path -> size
    hash_scanned,       \* hasattr(self, 'file_hash_dict')
    remove_input_files, \* FileOperator.remove_input_files
    pc,                 \* position inside DocumentPipeline.process
    state,              \* DocumentPipeline.state (PipelineState)
    new_path,           \* local new_path of move_to_destination
    todo,               \* input files the driver has yet to hand to process
    temps,              \* temporary working copies on disk (by original path)
    orig,               \* history: content of every input file at the start
    initial_out,        \* history: files under the output root at the start
    outcome,            \* history: how process ended for each input file
    placed              \* history: the placements, in processing order

pvars == <<fs, dirs, file_hash_dict, file_size_dict, hash_scanned,
           remove_input_files, pc, state, new_path, todo, temps, orig,
           initial_out, outcome, placed>>

\* The watcher of watcher.py and the tree it watches.
VARIABLES
    wfs,             \* watched tree: path -> number of writes so far; st_size
                     \* and st_mtime of the file both change with every write
    wopen,           \* files a writer still holds open
    wdirs,           \* directories of the watched tree
    events,          \* events the observer has queued for the handler
    file_states,     \* FileEventHandler.file_states
    pending_files,   \* FileEventHandler.pending_files
    directory_ready, \* FileEventHandler.directory_ready (the keys set to True)
    running,         \* Watcher._running
    tick_pc,         \* position of the loop of start_monitoring
    tick_paths,      \* list(file_states.keys()) left to check in this round
    since_write,     \* history: seconds slept by the monitoring loop since the
                     \* last write to each path, counted up to MaxIdle
    age,             \* history: seconds slept since the path's record was
                     \* created, counted up to MaxAge
    handoffs,        \* history: the last call of organize_file for each path,
                     \* and whether it was the first (n = 1) or a later one
    last_result      \* history: how the last hand-off of each path ended

wvars == <<wfs, wopen, wdirs, events, file_states, pending_files,
           directory_ready, running, tick_pc, tick_paths, since_write, age, handoffs, last_result>>

\* The monitor of main.py.
VARIABLES
    tracked_files,   \* FileStabilityHandler.tracked_files; 'first_seen' is kept
                     \* as the record's age, time.time() - first_seen
    stable_files,    \* FileStabilityHandler.stable_files
    since_check,     \* time.time() - last_check, in seconds, counted up to 1
    snapshot,        \* the polling observer's last snapshot of the tree
    poll_phase       \* alternates with every poll of the observer

mvars == <<tracked_files, stable_files, since_check, snapshot, poll_phase>>

\* The rate limiter of rate_limiter.py.
VARIABLES
    rate_limiter,    \* the RateLimiter object: max_calls, time_window, calls
    clock,           \* time.time(), in whole seconds
    admissions       \* history: one record for every call of wait_if_needed
                     \* that has returned

\* The configured roots, and directory cleanup applied to a tree.
VARIABLES
    stop_path,       \* the stop_path of cleanup_empty_dirs: the input root
    cleanup_log,     \* history: the last cleanup, its start path and the
                     \* directories and files before it
    output_path,     \* Watcher.output_path / Monitor.output_path
    stop_pc,         \* position of the thread that calls Watcher.stop()
    checking,        \* position of each thread inside _check_file_stability,
                     \* and the calls the thread has left
    invocations      \* the calls of DocumentPipeline.process that run at the
                     \* same time on one pipeline object: the file_path
                     \* argument, the position and the value returned

\* The naming of a document.
VARIABLES
    naming           \* the classifier's doc_topic, doc_date and doc_owner, the
                     \* filename made of them, and that filename normalized
                     \* once more; strings are sequences of characters

\* The variables outside the pipeline, the watcher and the monitor.
cvars == <<stop_path, cleanup_log, output_path, rate_limiter, clock, admissions, naming, stop_pc, checking, invocations>>

\* Names and folders the classifier can answer with.
Names == {"n1", "n2"}

Folders == {"work"}

\* A doc_folder value that is not a folder name of config.FOLDERS.
UnknownFolder == "bogus"

\* The (filename, category) pairs categorize_document can return: any name
\* with a folder of the list or with no folder, and one name with the unknown
\* folder.
Answers ==
    {<<fn, cat>> : fn \in Names, cat \in Folders \cup {""}}
        \cup {<<"n1", UnknownFolder>>}

\* The input tree of the model.
FileA == MkPath(<<"in">>, "a", <<>>, "txt")
FileB == MkPath(<<"in", "d1">>, "b", <<>>, "txt")
FileC == MkPath(<<"in", "d1", "d2">>, "c", <<>>, "txt")
FileX == MkPath(<<"in", "d1", "d2">>, "x", <<>>, "dat")

InputFiles == {FileA, FileB, FileC, FileX}

InputDirs == {<<"in">>, <<"in", "d1">>, <<"in", "d1", "d2">>}

\* Files that may already lie under the output root at startup.
PreWork == MkPath(<<"out", "work">>, "n1", <<>>, "txt")

PreFiles == {MkPath(UnsupportedDir, "b", <<>>, "txt"), PreWork}

\* PipelineState(original_path=file_path); NoPath and "" stand for None.
NewState(p) == [original_path |-> p, temporary_path |-> FALSE, category |-> "",
                filename |-> "", target_path |-> NoPath]

NoState == NewState(NoPath)

NoOutcome == [route |-> "none", why |-> "", raised |-> FALSE, target |-> NoPath,
              dup |-> NoPath]

\* The state before the first file is processed: the files of cont (path ->
\* content) on disk, the hash dictionary not yet built.
PipeInitWith(cont) ==
    /\ fs = cont
    /\ orig = [p \in (DOMAIN cont) \cap InputFiles |-> cont[p]]
    /\ initial_out = (DOMAIN cont) \cap PreFiles
    /\ todo = (DOMAIN cont) \cap InputFiles
    /\ dirs = InputDirs
    /\ file_hash_dict = EmptyFn
    /\ file_size_dict = EmptyFn
    /\ hash_scanned = FALSE
    /\ remove_input_files \in BOOLEAN
    /\ pc = "idle"
    /\ state = NoState
    /\ new_path = NoPath
    /\ temps = {}
    /\ outcome = [p \in todo |-> NoOutcome]
    /\ placed = <<>>
    /\ invocations = <<>>

\* The hash dictionary find_duplicate_by_hash and _update_hash_dict work on:
\* scanned on first use.
CurHashDict == IF hash_scanned THEN file_hash_dict ELSE ScanHashDict(fs)

CurSizeDict == IF hash_scanned THEN file_size_dict ELSE ScanSizeDict(fs)

\* DocumentPipeline.process, line 35: a fresh PipelineState for the file.
PipeStart(p) ==
    /\ UNCHANGED <<wvars, mvars, cvars>>
    /\ pc = "idle"
    /\ p \in todo
    /\ p \in DOMAIN fs
    /\ todo' = todo \ {p}
    /\ state' = NewState(p)
    /\ pc' = "extract"
    /\ UNCHANGED <<fs, dirs, file_hash_dict, file_size_dict, hash_scanned,
                   remove_input_files, new_path, temps, orig, initial_out,
                   outcome, placed>>

\* DocumentPipeline.extract_content: no handler raises ValueError; the
\* handler returns an asset (with its temporary copy) or None on failure.
PipeExtract ==
    /\ UNCHANGED <<wvars, mvars, cvars>>
    /\ pc = "extract"
    /\ IF GetHandler(state.original_path.ext) = "none"
       THEN /\ pc' = "except"
            /\ outcome' = [outcome EXCEPT ![state.original_path].why = "nohandler"]
            /\ UNCHANGED <<state, temps>>
       ELSE \E ok \in BOOLEAN :
               /\ state' = [state EXCEPT !.temporary_path = ok]
               /\ temps' = IF ok THEN temps \cup {state.original_path} ELSE temps
               /\ pc' = "categorize"
               /\ UNCHANGED outcome
    /\ UNCHANGED <<fs, dirs, file_hash_dict, file_size_dict, hash_scanned,
                   remove_input_files, new_path, todo, orig, initial_out, placed>>

\* DocumentPipeline.categorize: raises when there is no temporary_path or when
\* the categorizer raises, be it for any error of the call ("classify") or for
\* the ValueError of categorize_document when the generated filename is empty
\* ("emptyname"); sets filename and category only when both are non-empty.
PipeCategorize ==
    /\ UNCHANGED <<wvars, mvars, cvars>>
    /\ pc = "categorize"
    /\ IF ~state.temporary_path
       THEN /\ pc' = "except"
            /\ outcome' = [outcome EXCEPT ![state.original_path].why = "extract"]
            /\ UNCHANGED state
       ELSE \/ \E why \in {"classify", "emptyname"} :
                  /\ pc' = "except"
                  /\ outcome' = [outcome EXCEPT ![state.original_path].why = why]
                  /\ UNCHANGED state
            \/ \E answer \in Answers :
                  /\ state' = IF answer[2] # ""
                              THEN [state EXCEPT !.filename = answer[1],
                                                 !.category = answer[2]]
                              ELSE state
                  /\ pc' = "move"
                  /\ UNCHANGED outcome
    /\ UNCHANGED <<fs, dirs, file_hash_dict, file_size_dict, hash_scanned,
                   remove_input_files, new_path, todo, temps, orig, initial_out,
                   placed>>

\* Mutant of PipeDestination: a missing category or filename is noted but not
\* raised, and the document is placed under the name it has.
PipeDestinationUnnamed ==
    /\ UNCHANGED <<wvars, mvars, cvars>>
    /\ pc = "move"
    /\ LET existing_duplicate ==
               FindDuplicateByHash(fs, CurHashDict, state.original_path)
           base == IF existing_duplicate # NoPath
                   THEN [existing_duplicate EXCEPT !.sfx = @ \o <<V2>>]
                   ELSE MkPath(OutputRoot \o <<state.category>>, state.filename,
                               <<>>, state.original_path.ext)
       IN /\ new_path' = EnsureUniquePath(fs, base)
          /\ file_hash_dict' = CurHashDict
          /\ file_size_dict' = CurSizeDict
          /\ hash_scanned' = TRUE
          /\ outcome' = [outcome EXCEPT
                            ![state.original_path].dup = existing_duplicate,
                            ![state.original_path].why =
                                IF state.category = "" \/ state.filename = ""
                                THEN "noname" ELSE @]
          /\ pc' = "copy"
    /\ UNCHANGED <<fs, dirs, remove_input_files, state, todo, temps, orig,
                   initial_out, placed>>

\* DocumentPipeline.move_to_destination, lines 78-98: the destination path.
\* A duplicate found by hash gives <stem>_v2 next to the duplicate, otherwise
\* <category>/<filename><suffix>; either is made unique.
PipeDestination ==
    /\ UNCHANGED <<wvars, mvars, cvars>>
    /\ pc = "move"
    /\ IF state.category = "" \/ state.filename = ""
       THEN /\ pc' = "except"
            /\ outcome' = [outcome EXCEPT ![state.original_path].why = "noname"]
            /\ UNCHANGED <<new_path, file_hash_dict, file_size_dict, hash_scanned>>
       ELSE LET existing_duplicate ==
                    FindDuplicateByHash(fs, CurHashDict, state.original_path)
                base == IF existing_duplicate # NoPath
                        THEN [existing_duplicate EXCEPT !.sfx = @ \o <<V2>>]
                        ELSE MkPath(OutputRoot \o <<state.category>>, state.filename,
                                    <<>>, state.original_path.ext)
            IN /\ new_path' = EnsureUniquePath(fs, base)
               /\ file_hash_dict' = CurHashDict
               /\ file_size_dict' = CurSizeDict
               /\ hash_scanned' = TRUE
               /\ outcome' = [outcome EXCEPT ![state.original_path].dup = existing_duplicate]
               /\ pc' = "copy"
    /\ UNCHANGED <<fs, dirs, remove_input_files, state, todo, temps, orig,
                   initial_out, placed>>

\* Mutant of PipeCopy: the OSError of a failed copy is swallowed without the
\* early return, so the stage goes on to remove the original.
PipeCopyIgnoringError ==
    /\ UNCHANGED <<wvars, mvars, cvars>>
    /\ pc = "copy"
    /\ \E partial \in BOOLEAN :
          /\ fs' = IF partial THEN Put(fs, new_path, 0 - fs[state.original_path]) ELSE fs
          /\ outcome' = [outcome EXCEPT ![state.original_path].route = "copyfail"]
          /\ pc' = "remove"
    /\ UNCHANGED <<dirs, state, file_hash_dict, file_size_dict, placed, hash_scanned,
                   remove_input_files, new_path, todo, temps, orig, initial_out>>

\* move_to_destination, lines 100-108: copy_file, then _update_hash_dict. An
\* OSError (nothing written, or a truncated destination left behind) ends the
\* stage with target_path None.
PipeCopy ==
    /\ UNCHANGED <<wvars, mvars, cvars>>
    /\ pc = "copy"
    /\ LET src == state.original_path
       IN \/ /\ fs' = Put(fs, new_path, fs[src])
             /\ dirs' = CleanupAfterOperation(fs', dirs, src)
             /\ state' = [state EXCEPT !.target_path = new_path]
             /\ file_hash_dict' = UpdateHashDict(fs', CurHashDict, new_path)
             /\ file_size_dict' = UpdateSizeDict(fs', CurSizeDict, new_path)
             /\ placed' = Append(placed, [src |-> src, dst |-> new_path,
                                          content |-> fs[src],
                                          base |-> MkPath(OutputRoot \o <<state.category>>,
                                                          state.filename, <<>>, src.ext),
                                          dup |-> outcome[src].dup])
             /\ outcome' = [outcome EXCEPT ![src].route = "placed", ![src].target = new_path]
             /\ pc' = IF remove_input_files THEN "remove" ELSE "done"
          \/ \E partial \in BOOLEAN :
                /\ fs' = IF partial THEN Put(fs, new_path, 0 - fs[src]) ELSE fs
                /\ outcome' = [outcome EXCEPT ![src].route = "copyfail"]
                /\ pc' = "done"
                /\ UNCHANGED <<dirs, state, file_hash_dict, file_size_dict, placed>>
    /\ UNCHANGED <<hash_scanned, remove_input_files, new_path, todo, temps, orig,
                   initial_out>>

\* Mutant of PipeRemove: the removal is not sequenced after the copy, it can
\* run while the copy has not been made yet.
PipeRemoveUnsequenced ==
    /\ UNCHANGED <<wvars, mvars, cvars>>
    /\ pc \in {"copy", "remove"}
    /\ fs' = Del(fs, state.original_path)
    /\ dirs' = CleanupAfterOperation(fs', dirs, state.original_path)
    /\ pc' = "done"
    /\ UNCHANGED <<file_hash_dict, file_size_dict, hash_scanned, remove_input_files,
                   state, new_path, todo, temps, orig, initial_out, outcome, placed>>

\* move_to_destination, lines 110-117 with FileOperator.remove_file: the
\* original is removed; a failing os.remove is logged inside remove_file and
\* changes nothing.
PipeRemove ==
    /\ UNCHANGED <<wvars, mvars, cvars>>
    /\ pc = "remove"
    /\ LET src == state.original_path
       IN \/ /\ fs' = Del(fs, src)
             /\ dirs' = CleanupAfterOperation(fs', dirs, src)
          \/ UNCHANGED <<fs, dirs>>
    /\ pc' = "done"
    /\ UNCHANGED <<file_hash_dict, file_size_dict, hash_scanned, remove_input_files,
                   state, new_path, todo, temps, orig, initial_out, outcome, placed>>

\* Mutant of PipeExcept: the test that the duplicate lies in unsupported/ is
\* dropped, so a failed file is removed whenever any duplicate is known.
PipeExceptAnyDuplicate ==
    /\ UNCHANGED <<wvars, mvars, cvars>>
    /\ pc = "except"
    /\ LET src == state.original_path
           duplicate == FindDuplicateByHash(fs, CurHashDict, src)
       IN /\ duplicate # NoPath
          /\ remove_input_files
          /\ file_hash_dict' = CurHashDict
          /\ file_size_dict' = CurSizeDict
          /\ hash_scanned' = TRUE
          /\ outcome' = [outcome EXCEPT ![src].route = "unsup_dup",
                                        ![src].target = duplicate]
          /\ fs' = Del(fs, src)
          /\ dirs' = CleanupAfterOperation(fs', dirs, src)
    /\ pc' = "done"
    /\ UNCHANGED <<remove_input_files, state, new_path, todo, temps, orig,
                   initial_out, placed>>

\* process, lines 43-46, with FileOperator.move_to_unsupported: a file whose
\* duplicate lies in unsupported/ is removed, any other is moved to
\* unsupported/<name> (made unique). ValueError (remove_input_files False) and
\* the errors of shutil.move leave process by raising.
PipeExcept ==
    /\ UNCHANGED <<wvars, mvars, cvars>>
    /\ pc = "except"
    /\ LET src == state.original_path
           duplicate == FindDuplicateByHash(fs, CurHashDict, src)
           unsupported_path == EnsureUniquePath(fs, MkPath(UnsupportedDir, src.name,
                                                           src.sfx, src.ext))
       IN /\ file_hash_dict' = CurHashDict
          /\ file_size_dict' = CurSizeDict
          /\ hash_scanned' = TRUE
          /\ IF duplicate # NoPath /\ IsRelativeTo(duplicate, UnsupportedDir)
             THEN IF ~remove_input_files
                  THEN /\ outcome' = [outcome EXCEPT ![src].route = "unsup_dup",
                                                     ![src].raised = TRUE]
                       /\ UNCHANGED <<fs, dirs>>
                  ELSE /\ outcome' = [outcome EXCEPT ![src].route = "unsup_dup",
                                                     ![src].target = duplicate]
                       /\ \/ /\ fs' = Del(fs, src)
                             /\ dirs' = CleanupAfterOperation(fs', dirs, src)
                          \/ UNCHANGED <<fs, dirs>>
             ELSE IF ~remove_input_files
                  THEN /\ outcome' = [outcome EXCEPT ![src].route = "unsup_move",
                                                     ![src].raised = TRUE]
                       /\ UNCHANGED <<fs, dirs>>
                  ELSE \/ /\ fs' = Put(Del(fs, src), unsupported_path, fs[src])
                          /\ dirs' = CleanupAfterOperation(fs', dirs, src)
                          /\ outcome' = [outcome EXCEPT ![src].route = "unsup_move",
                                                        ![src].target = unsupported_path]
                       \/ \E left \in {"nothing", "partial", "both"} :
                             /\ fs' = CASE left = "nothing" -> fs
                                        [] left = "partial" ->
                                             Put(fs, unsupported_path, 0 - fs[src])
                                        [] left = "both" ->
                                             Put(fs, unsupported_path, fs[src])
                             /\ outcome' = [outcome EXCEPT ![src].route = "unsup_move",
                                                           ![src].raised = TRUE]
                             /\ UNCHANGED dirs
    /\ pc' = "done"
    /\ UNCHANGED <<remove_input_files, state, new_path, todo, temps, orig,
                   initial_out, placed>>

\* Between two calls of process somebody else deletes a file under the output
\* root that the scan has indexed; the index is not told.
OutputRemoved(q) ==
    /\ UNCHANGED <<wvars, mvars, cvars>>
    /\ pc = "idle"
    /\ hash_scanned
    /\ q \in DOMAIN fs
    /\ IsRelativeTo(q, OutputRoot)
    /\ fs' = Del(fs, q)
    /\ UNCHANGED <<dirs, file_hash_dict, file_size_dict, hash_scanned,
                   remove_input_files, pc, state, new_path, todo, temps, orig,
                   initial_out, outcome, placed>>

\* process, lines 47-48: finally, self.state = None.
PipeFinish ==
    /\ UNCHANGED <<wvars, mvars, cvars>>
    /\ pc = "done"
    /\ pc' = "idle"
    /\ state' = NoState
    /\ new_path' = NoPath
    /\ UNCHANGED <<fs, dirs, file_hash_dict, file_size_dict, hash_scanned,
                   remove_input_files, todo, temps, orig, initial_out, outcome,
                   placed>>

\* ---- process(file_path) called by several threads on one DocumentPipeline.
\* self.state is an attribute of the pipeline object; file_path is the
\* caller's own argument. One step of call t: line 35, extract_content,
\* categorize, move_to_destination with the return of line 42, the except
\* branch of lines 43-46, or the finally of lines 47-48. Here every handler,
\* classifier call and file operation succeeds when its file is there, and the
\* classifier names a document after the file it is shown.
ProcessStep(t) ==
    LET me == invocations[t]
        Goto(label) == invocations' = [invocations EXCEPT ![t].pc = label]
        src == state.original_path
        unsupported_path == EnsureUniquePath(fs, MkPath(UnsupportedDir, me.file_path.name,
                                                        me.file_path.sfx, me.file_path.ext))
        base == MkPath(OutputRoot \o <<state.category>>, state.filename, <<>>, src.ext)
        dst == EnsureUniquePath(fs, base)
    IN
    /\ UNCHANGED <<wvars, mvars, stop_path, cleanup_log, output_path, rate_limiter,
                   clock, admissions, naming, stop_pc, checking>>
    /\ UNCHANGED <<remove_input_files, pc, new_path, todo, temps, orig,
                   initial_out, outcome, placed>>
    /\ \/ /\ me.pc = "call"
          /\ state' = NewState(me.file_path)
          /\ Goto("extract")
          /\ UNCHANGED <<fs, dirs, file_hash_dict, file_size_dict, hash_scanned>>
       \/ /\ me.pc = "extract"
          /\ IF state = NoState \/ GetHandler(src.ext) = "none"
             THEN Goto("except") /\ UNCHANGED state
             ELSE Goto("categorize") /\ state' = [state EXCEPT !.temporary_path = TRUE]
          /\ UNCHANGED <<fs, dirs, file_hash_dict, file_size_dict, hash_scanned>>
       \/ /\ me.pc = "categorize"
          /\ IF state = NoState \/ ~state.temporary_path
             THEN Goto("except") /\ UNCHANGED state
             ELSE /\ Goto("move")
                  /\ state' = [state EXCEPT !.filename = IF src = FileA THEN "n1" ELSE "n2",
                                            !.category = "work"]
          /\ UNCHANGED <<fs, dirs, file_hash_dict, file_size_dict, hash_scanned>>
       \/ /\ me.pc = "move"
          /\ IF state = NoState \/ state.category = "" \/ state.filename = ""
             THEN /\ Goto("except")
                  /\ UNCHANGED <<state, fs, dirs, file_hash_dict, file_size_dict,
                                 hash_scanned>>
             ELSE IF src \notin DOMAIN fs
             THEN /\ invocations' = [invocations EXCEPT ![t].pc = "finally",
                                                        ![t].returned = NoPath]
                  /\ UNCHANGED <<state, fs, dirs>>
                  /\ file_hash_dict' = CurHashDict
                  /\ file_size_dict' = CurSizeDict
                  /\ hash_scanned' = TRUE
             ELSE /\ FindDuplicateByHash(fs, CurHashDict, src) = NoPath
                  /\ fs' = Del(Put(fs, dst, fs[src]), src)
                  /\ dirs' = CleanupAfterOperation(fs', dirs, src)
                  /\ file_hash_dict' = UpdateHashDict(fs', CurHashDict, dst)
                  /\ file_size_dict' = UpdateSizeDict(fs', CurSizeDict, dst)
                  /\ hash_scanned' = TRUE
                  /\ state' = [state EXCEPT !.target_path = dst]
                  /\ invocations' = [invocations EXCEPT ![t].pc = "finally",
                                                        ![t].returned = dst]
       \/ /\ me.pc = "except"
          /\ file_hash_dict' = CurHashDict
          /\ file_size_dict' = CurSizeDict
          /\ hash_scanned' = TRUE
          /\ IF me.file_path \in DOMAIN fs
             THEN /\ FindDuplicateByHash(fs, CurHashDict, me.file_path) = NoPath
                  /\ fs' = Put(Del(fs, me.file_path), unsupported_path, fs[me.file_path])
                  /\ dirs' = CleanupAfterOperation(fs', dirs, me.file_path)
                  /\ invocations' = [invocations EXCEPT ![t].pc = "finally",
                                                        ![t].returned = unsupported_path]
             ELSE /\ invocations' = [invocations EXCEPT ![t].pc = "finally",
                                                        ![t].raised = TRUE]
                  /\ UNCHANGED <<fs, dirs>>
          /\ UNCHANGED state
       \/ /\ me.pc = "finally"
          /\ state' = NoState
          /\ Goto("done")
          /\ UNCHANGED <<fs, dirs, file_hash_dict, file_size_dict, hash_scanned>>

\* Processor.process_existing_files, lines 50-54: the loop takes the next path
\* of input_path.rglob('*'). rglob yields the entries of a directory before
\* the entries of the directories below it, and the loop does not sort them.
SweepStart(p) ==
    /\ \A q \in todo : ~(IsPrefix(q.dir, p.dir) /\ q.dir # p.dir)
    /\ PipeStart(p)

\* Processor.process_existing_files, lines 53-55 and 60-61: process returned,
\* the loop goes on with the next file.
SweepReturn ==
    /\ pc = "done"
    /\ ~outcome[state.original_path].raised
    /\ PipeFinish

\* Processor.process_existing_files, lines 56-59: process has raised (after its
\* finally clause), the loop's except clause calls move_to_unsupported once
\* more. Nothing catches what this second call raises: the exception leaves the
\* for loop and the sweep is over.
SweepExcept ==
    /\ UNCHANGED <<wvars, mvars, cvars>>
    /\ pc = "done"
    /\ outcome[state.original_path].raised
    /\ LET src == state.original_path
           duplicate == FindDuplicateByHash(fs, CurHashDict, src)
           unsupported_path == EnsureUniquePath(fs, MkPath(UnsupportedDir, src.name,
                                                           src.sfx, src.ext))
       IN IF duplicate # NoPath /\ IsRelativeTo(duplicate, UnsupportedDir)
          THEN /\ \/ /\ fs' = Del(fs, src)
                     /\ dirs' = CleanupAfterOperation(fs', dirs, src)
                  \/ UNCHANGED <<fs, dirs>>
               /\ pc' = "idle"
          ELSE \/ /\ fs' = Put(Del(fs, src), unsupported_path, fs[src])
                  /\ dirs' = CleanupAfterOperation(fs', dirs, src)
                  /\ pc' = "idle"
               \/ \E left \in {"nothing", "partial", "both"} :
                     /\ fs' = CASE left = "nothing" -> fs
                                [] left = "partial" ->
                                     Put(fs, unsupported_path, 0 - fs[src])
                                [] left = "both" ->
                                     Put(fs, unsupported_path, fs[src])
                     /\ pc' = "halted"
                     /\ UNCHANGED dirs
    /\ state' = NoState
    /\ new_path' = NoPath
    /\ UNCHANGED <<file_hash_dict, file_size_dict, hash_scanned, remove_input_files,
                   todo, temps, orig, initial_out, outcome, placed>>

\* ---- move_file, copy_file and remove_file called with any two paths. The
\* call, and whether it raised, is kept in placed.
\* Mutant of MoveFile: the three tests at the head of move_file are dropped.
MoveFileUnchecked(source, destination) ==
    /\ UNCHANGED <<wvars, mvars, cvars>>
    /\ pc = "idle"
    /\ source \in DOMAIN fs
    /\ source # destination
    /\ fs' = Put(Del(fs, source), destination, fs[source])
    /\ dirs' = CleanupAfterOperation(fs', dirs, source)
    /\ placed' = <<[op |-> "move", src |-> source, dst |-> destination,
                    raised |-> ""]>>
    /\ UNCHANGED <<file_hash_dict, file_size_dict, hash_scanned,
                   remove_input_files, pc, state, new_path, todo, temps, orig,
                   initial_out, outcome>>

\* FileOperator.move_file(source, destination)
MoveFile(source, destination) ==
    /\ UNCHANGED <<wvars, mvars, cvars>>
    /\ pc = "idle"
    /\ source \in DOMAIN fs
    /\ IF \/ ~remove_input_files
          \/ ~IsRelativeTo(source, InputRoot)
          \/ ~IsRelativeTo(destination, OutputRoot)
       THEN /\ placed' = <<[op |-> "move", src |-> source, dst |-> destination,
                            raised |-> "ValueError"]>>
            /\ UNCHANGED <<fs, dirs>>
       ELSE /\ fs' = Put(Del(fs, source), destination, fs[source])
            /\ dirs' = CleanupAfterOperation(fs', dirs, source)
            /\ placed' = <<[op |-> "move", src |-> source, dst |-> destination,
                            raised |-> ""]>>
    /\ UNCHANGED <<file_hash_dict, file_size_dict, hash_scanned,
                   remove_input_files, pc, state, new_path, todo, temps, orig,
                   initial_out, outcome>>

\* FileOperator.copy_file(source, destination); shutil.copy2 may be cut short
\* by an OSError, and then the cleanup is not reached.
CopyFile(source, destination) ==
    /\ UNCHANGED <<wvars, mvars, cvars>>
    /\ pc = "idle"
    /\ source \in DOMAIN fs
    /\ IF \/ ~IsRelativeTo(source, InputRoot)
          \/ ~IsRelativeTo(destination, OutputRoot)
       THEN /\ placed' = <<[op |-> "copy", src |-> source, dst |-> destination,
                            raised |-> "ValueError"]>>
            /\ UNCHANGED <<fs, dirs>>
       ELSE \E ok \in BOOLEAN :
               IF ok \/ ~IsComplete(fs[source])
               THEN /\ fs' = Put(fs, destination, fs[source])
                    /\ dirs' = CleanupAfterOperation(fs', dirs, source)
                    /\ placed' = <<[op |-> "copy", src |-> source,
                                    dst |-> destination, raised |-> ""]>>
               ELSE /\ fs' = Put(fs, destination, -fs[source])
                    /\ dirs' = dirs
                    /\ placed' = <<[op |-> "copy", src |-> source,
                                    dst |-> destination, raised |-> "OSError"]>>
    /\ UNCHANGED <<file_hash_dict, file_size_dict, hash_scanned,
                   remove_input_files, pc, state, new_path, todo, temps, orig,
                   initial_out, outcome>>

\* FileOperator.remove_file(file_path)
RemoveFile(file_path) ==
    /\ UNCHANGED <<wvars, mvars, cvars>>
    /\ pc = "idle"
    /\ file_path \in DOMAIN fs
    /\ IF ~remove_input_files \/ ~IsRelativeTo(file_path, InputRoot)
       THEN /\ placed' = <<[op |-> "remove", src |-> file_path, dst |-> NoPath,
                            raised |-> "ValueError"]>>
            /\ UNCHANGED <<fs, dirs>>
       ELSE /\ fs' = Del(fs, file_path)
            /\ dirs' = CleanupAfterOperation(fs', dirs, file_path)
            /\ placed' = <<[op |-> "remove", src |-> file_path, dst |-> NoPath,
                            raised |-> ""]>>
    /\ UNCHANGED <<file_hash_dict, file_size_dict, hash_scanned,
                   remove_input_files, pc, state, new_path, todo, temps, orig,
                   initial_out, outcome>>

\* ------------------------------------------------ cleanup of a tree
\* The directories a tree of the model can have: a chain three levels deep
\* below in/, a sidecar folder in its second level, and a sibling of the chain.
TreeDirs == {<<"in">>, <<"in", "d1">>, <<"in", "d1", "d2">>,
             <<"in", "d1", "d2", "d3">>, <<"in", "d1", "d2", SidecarName>>,
             <<"in", "e1">>}

\* The files a tree can hold, one for each directory but the sidecar folder.
TreeFiles == {MkPath(d, "f", <<>>, "txt") : d \in {e \in TreeDirs : e[Len(e)] # SidecarName}}

\* No cleanup has run; the input root is in/.
CleanupIdle ==
    /\ stop_path = InputRoot
    /\ cleanup_log = [by |-> "none", start |-> <<>>, dirs |-> {}, files |-> {}]

\* Mutant of OrganizerCleanupLoop: the parent directory is removed without
\* the test of _is_empty_dir.
OrganizerCleanupLoopUntested(f, ds, cur, stop) ==
    IF cur # stop /\ cur \in ds THEN ds \ {cur} ELSE ds

\* FileOrganizer._is_empty_dir with the loop of organize_file, lines 224-233:
\* a directory is empty when os.scandir yields nothing.
RECURSIVE OrganizerCleanupLoop(_, _, _, _)
OrganizerCleanupLoop(f, ds, cur, stop) ==
    IF cur # stop /\ cur \in ds /\ FilesIn(f, cur) = {} /\ SubDirs(ds, cur) = {}
    THEN OrganizerCleanupLoop(f, ds \ {cur}, Parent(cur), stop)
    ELSE ds

\* DirectoryManager.cleanup_empty_dirs called with any start path.
TreeCleanup(start) ==
    /\ UNCHANGED <<wvars, mvars>>
    /\ pc = "tree"
    /\ dirs' = CleanupEmptyDirs(fs, dirs, start, stop_path)
    /\ cleanup_log' = [by |-> "manager", start |-> start, dirs |-> dirs,
                       files |-> DOMAIN fs]
    /\ UNCHANGED <<fs, file_hash_dict, file_size_dict, hash_scanned,
                   remove_input_files, pc, state, new_path, todo, temps, orig,
                   initial_out, outcome, placed, stop_path, output_path, rate_limiter, clock, admissions,
                   naming, stop_pc, checking, invocations>>

\* FileOperator.remove_file on a file under the input root: os.remove, then
\* _cleanup_after_operation from the file's directory.
TreeRemoveFile(p) ==
    /\ UNCHANGED <<wvars, mvars>>
    /\ pc = "tree"
    /\ p \in DOMAIN fs
    /\ IsRelativeTo(p, stop_path)
    /\ fs' = Del(fs, p)
    /\ dirs' = CleanupEmptyDirs(fs', dirs, p.dir, stop_path)
    /\ cleanup_log' = [by |-> "remove", start |-> p.dir, dirs |-> dirs,
                       files |-> DOMAIN fs]
    /\ UNCHANGED <<file_hash_dict, file_size_dict, hash_scanned,
                   remove_input_files, pc, state, new_path, todo, temps, orig,
                   initial_out, outcome, placed, stop_path, output_path, rate_limiter, clock, admissions,
                   naming, stop_pc, checking, invocations>>

\* FileOrganizer.organize_file on a file under the input root that is moved to
\* the output tree: shutil.move, then the loop over the parent directories.
TreeOrganizeFile(p) ==
    /\ UNCHANGED <<wvars, mvars>>
    /\ pc = "tree"
    /\ p \in DOMAIN fs
    /\ IsRelativeTo(p, stop_path)
    /\ fs' = Del(fs, p)
    /\ dirs' = OrganizerCleanupLoop(fs', dirs, p.dir, stop_path)
    /\ cleanup_log' = [by |-> "organizer", start |-> p.dir, dirs |-> dirs,
                       files |-> DOMAIN fs]
    /\ UNCHANGED <<file_hash_dict, file_size_dict, hash_scanned,
                   remove_input_files, pc, state, new_path, todo, temps, orig,
                   initial_out, outcome, placed, stop_path, output_path, rate_limiter, clock, admissions,
                   naming, stop_pc, checking, invocations>>

\* ---------------------------------------- FileOrganizer (file_organizer.py)
RECURSIVE GenerateNewFilePath(_, _, _, _, _)
\* The while loop of FileOrganizer._generate_new_file_path: the first free
\* path of base, base_1, base_2, ..., unless an existing one has the hash of
\* the current file. compute_hash returns None for a file of unread, and
\* None == None holds in Python. nohash tells whether a call of compute_hash
\* has failed (and logged it).
GenerateNewFilePath(f, unread, current, base, i) ==
    LET new_file_path == IF i = 0 THEN base ELSE [base EXCEPT !.sfx = <<i>>]
        None == 0
        existing_file_hash == IF new_file_path \in unread THEN None
                              ELSE HashOf(f[new_file_path])
        current_file_hash == IF current \in unread THEN None ELSE HashOf(f[current])
        failed == None \in {existing_file_hash, current_file_hash}
    IN IF new_file_path \notin DOMAIN f
       THEN [path |-> new_file_path, skipped |-> FALSE, nohash |-> FALSE]
       ELSE IF existing_file_hash = current_file_hash
       THEN [path |-> NoPath, skipped |-> TRUE, nohash |-> failed]
       ELSE LET r == GenerateNewFilePath(f, unread, current, base, i + 1)
            IN [r EXCEPT !.nohash = failed \/ @]

\* FileOrganizer.organize_file(p) for a document the classifier files as
\* work/n1: the files of unread cannot be opened for reading during the call.
\* The file is removed as a duplicate or moved to the new path, then the
\* emptied parent directories are removed up to the input directory.
OrganizerOrganizeFile(p) ==
    /\ UNCHANGED <<wvars, mvars, cvars>>
    /\ pc = "idle"
    /\ p \in todo
    /\ p \in DOMAIN fs
    /\ todo' = todo \ {p}
    /\ \E unread \in SUBSET {q \in DOMAIN fs : q = p \/ IsRelativeTo(q, OutputRoot)} :
          LET r == GenerateNewFilePath(
                       fs, unread, p,
                       MkPath(OutputRoot \o <<"work">>, "n1", <<>>, p.ext), 0)
          IN /\ fs' = IF r.skipped THEN Del(fs, p)
                      ELSE Put(Del(fs, p), r.path, fs[p])
             /\ dirs' = OrganizerCleanupLoop(fs', dirs, p.dir, InputRoot)
             /\ outcome' = [outcome EXCEPT
                               ![p].route = IF r.skipped THEN "duplicate" ELSE "placed",
                               ![p].why = IF r.nohash THEN "nohash" ELSE "",
                               ![p].target = r.path]
    /\ UNCHANGED <<file_hash_dict, file_size_dict, hash_scanned, remove_input_files,
                   pc, state, new_path, temps, orig, initial_out, placed>>

\* One step of call t of FileOrganizer.organize_file, made by the monitoring
\* loop or by the observer's thread (watcher.py 92, 181-200) with no lock: the
\* lines up to the return of _generate_new_file_path, then _save_or_skip_file
\* with the parent loop. The classifier may give both documents one name.
\* shutil.move replaces a file that exists at the destination.
OrganizeStep(t) ==
    LET me == invocations[t]
        current_file_path == me.file_path
    IN /\ UNCHANGED <<wvars, mvars, stop_path, cleanup_log, output_path,
                      rate_limiter, clock, admissions, naming, stop_pc, checking>>
       /\ UNCHANGED <<file_hash_dict, file_size_dict, hash_scanned,
                      remove_input_files, pc, state, new_path, todo, temps, orig,
                      initial_out, outcome, placed>>
       /\ \/ /\ me.pc = "call"
             /\ \E new_name \in {"n1", "n2"} :
                   LET r == GenerateNewFilePath(
                                fs, {}, current_file_path,
                                MkPath(OutputRoot \o <<"work">>, new_name, <<>>,
                                       current_file_path.ext), 0)
                   IN IF r.skipped
                      THEN /\ fs' = Del(fs, current_file_path)
                           /\ dirs' = OrganizerCleanupLoop(fs', dirs,
                                          current_file_path.dir, InputRoot)
                           /\ invocations' = [invocations EXCEPT ![t].pc = "done"]
                      ELSE /\ invocations' = [invocations EXCEPT
                                                 ![t].pc = "save",
                                                 ![t].returned = r.path]
                           /\ UNCHANGED <<fs, dirs>>
          \/ /\ me.pc = "save"
             /\ fs' = Put(Del(fs, current_file_path), me.returned,
                          fs[current_file_path])
             /\ dirs' = OrganizerCleanupLoop(fs', dirs, current_file_path.dir,
                                             InputRoot)
             /\ invocations' = [invocations EXCEPT ![t].pc = "done"]

\* ------------------------------- ensure_unique_path as its callers use it
\* The highest version number on disk at the start, and the number of files
\* after which no further file is created.
MaxVersions == 4

MaxFiles == 7

\* The base paths asked for: a plain name, and a name that already carries a
\* version suffix.
UniqueBases == {PreWork, [PreWork EXCEPT !.sfx = <<1>>]}

\* new_path = self.file_operator.ensure_unique_path(new_path)
\* (pipeline.py 93 and 98, file_operator.py 129)
EnsureUnique ==
    /\ UNCHANGED <<wvars, mvars, cvars>>
    /\ pc = "unique"
    /\ new_path' = EnsureUniquePath(fs, new_path)
    /\ pc' = "returned"
    /\ UNCHANGED <<fs, dirs, file_hash_dict, file_size_dict, hash_scanned,
                   remove_input_files, state, todo, temps, orig, initial_out,
                   outcome, placed>>

\* The caller creates the file at the path it was given (shutil.copy2,
\* shutil.move), and a next base path is asked for.
UniquePlace ==
    /\ UNCHANGED <<wvars, mvars, cvars>>
    /\ pc = "returned"
    /\ Cardinality(DOMAIN fs) < MaxFiles
    /\ fs' = Put(fs, new_path, 1)
    /\ new_path' \in UniqueBases
    /\ pc' = "unique"
    /\ UNCHANGED <<dirs, file_hash_dict, file_size_dict, hash_scanned,
                   remove_input_files, state, todo, temps, orig, initial_out,
                   outcome, placed>>

\* ------------------------------------------- rate limiter (rate_limiter.py)
\* Bounds of the rate limiter model: the largest max_calls and time_window,
\* the seconds a sleep can last longer than asked, the last second of the
\* clock and the number of calls.
MaxCalls == 2

MaxWindow == 3

MaxOversleep == 1

MaxClock == 7

MaxAdmissions == 4

\* No rate limiter is in use.
RateLimiterIdle ==
    /\ rate_limiter = [max_calls |-> 1, time_window |-> 1, calls |-> <<>>]
    /\ clock = 0
    /\ admissions = <<>>

RECURSIVE PopOld(_, _, _)
\* while self.calls and now - self.calls[0] >= self.time_window: popleft()
PopOld(calls, now, time_window) ==
    IF calls # <<>> /\ now - Head(calls) >= time_window
    THEN PopOld(Tail(calls), now, time_window)
    ELSE calls

\* Mutant of WaitTime: the wait ends one second before the oldest call leaves
\* the window.
WaitTimeShort(calls, now, time_window) == calls[1] + time_window - now - 1

\* wait_time = self.calls[0] + self.time_window - now
WaitTime(calls, now, time_window) == calls[1] + time_window - now

\* RateLimiter.wait_if_needed() from its call to its return, by one caller at
\* a time. time.sleep(wait_time) lasts wait_time seconds or longer.
WaitIfNeeded ==
    /\ UNCHANGED <<pvars, wvars, mvars, stop_path, cleanup_log, output_path, naming,
                   stop_pc, checking, invocations>>
    /\ Len(admissions) < MaxAdmissions
    /\ LET r == rate_limiter
           now == clock
           calls == PopOld(r.calls, now, r.time_window)
           full == Len(calls) >= r.max_calls
           oldest == IF calls # <<>> THEN calls[1] ELSE 0
           wait_time == IF full THEN WaitTime(calls, now, r.time_window) ELSE 0
       IN IF full /\ wait_time > 0
          THEN \E over \in 0..MaxOversleep :
                  LET now2 == now + wait_time + over
                  IN /\ now2 <= MaxClock
                     /\ clock' = now2
                     /\ rate_limiter' =
                            [r EXCEPT !.calls =
                                Append(PopOld(calls, now2, r.time_window), now2)]
                     /\ admissions' = Append(admissions,
                            [arrived |-> now, at |-> now2, full |-> TRUE,
                             oldest |-> oldest])
          ELSE /\ clock' = clock
               /\ rate_limiter' = [r EXCEPT !.calls = Append(calls, now)]
               /\ admissions' = Append(admissions,
                      [arrived |-> now, at |-> now, full |-> full,
                       oldest |-> oldest])

\* A second passes between two calls.
ClockTick ==
    /\ UNCHANGED <<pvars, wvars, mvars, stop_path, cleanup_log, output_path, naming,
                   stop_pc, checking, invocations>>
    /\ clock < MaxClock
    /\ clock' = clock + 1
    /\ UNCHANGED <<rate_limiter, admissions>>

\* ------------------- naming (document_categorizer.py, file_renamer.py)
\* The longest doc_topic of the model.
MaxLen == 3

\* Mutant of Lower: str.swapcase() instead of str.lower().
SwapCase(c) ==
    CASE c = "A" -> <<"a">>
      [] c = "a" -> <<"A">>
      [] c = "CCED" -> <<"cced">>
      [] c = "cced" -> <<"CCED">>
      [] c = "IDOT" -> <<"i", "dot">>
      [] OTHER -> <<c>>

\* str.lower() on one character: "CCED" and "cced" are the capital and the
\* small c with cedilla, "IDOT" is the capital I with dot above, whose lower
\* case is an i followed by the combining dot above, "dot".
Lower(c) ==
    CASE c = "A" -> <<"a">>
      [] c = "CCED" -> <<"cced">>
      [] c = "IDOT" -> <<"i", "dot">>
      [] OTHER -> <<c>>

\* _asciify_and_lowercase(text) of DocumentCategorizer ("categorizer"): lower
\* case, the replacements, then re.sub(r'\s+', '-', text); and
\* asciify_and_lowercase(text) of FileRenamer ("renamer"), which replaces the
\* space only.
AsciifyAndLowercase(impl, text) ==
    LET RECURSIVE LowerAll(_)
        LowerAll(t) ==
            IF t = <<>> THEN <<>> ELSE Lower(Head(t)) \o LowerAll(Tail(t))
        lowered == LowerAll(text)
        replaced == [i \in 1..Len(lowered) |->
                        IF lowered[i] = "cced" THEN "c" ELSE lowered[i]]
        RECURSIVE SubSpaces(_)
        SubSpaces(t) ==
            IF t = <<>> THEN <<>>
            ELSE IF Head(t) \in {" ", "tab"}
            THEN IF Tail(t) # <<>> /\ Head(Tail(t)) \in {" ", "tab"}
                 THEN SubSpaces(Tail(t))
                 ELSE <<"-">> \o SubSpaces(Tail(t))
            ELSE <<Head(t)>> \o SubSpaces(Tail(t))
    IN IF impl = "categorizer" THEN SubSpaces(replaced)
       ELSE [i \in 1..Len(replaced) |->
                IF replaced[i] = " " THEN "-" ELSE replaced[i]]

\* _sanitize_filename(filename): re.sub(r"[^a-z0-9-]", "", filename)
SanitizeFilename(filename) ==
    SelectSeq(filename, LAMBDA c : c \in {"a", "c", "i", "1", "-"})

\* DocumentCategorizer._generate_filename(topic, date, owner) and lines 34-36
\* of FileRenamer.categorize_file
GenerateFilename(impl, topic, date, owner) ==
    LET kept == SelectSeq(<<topic, date, owner>>, LAMBDA x : x # <<>>)
        Join[i \in 0..Len(kept)] ==
            IF i = 0 THEN <<>>
            ELSE IF i = 1 THEN kept[1]
            ELSE Join[i - 1] \o <<"-">> \o kept[i]
    IN SanitizeFilename(AsciifyAndLowercase(impl, Join[Len(kept)]))

\* No document is being named.
NamingIdle ==
    naming = [impl |-> "categorizer", topic |-> <<>>, date |-> <<>>,
              owner |-> <<>>, step |-> 0, filename |-> <<>>, again |-> <<>>]

\* The filename is generated from the classifier's answer.
NameDocument ==
    /\ UNCHANGED <<pvars, wvars, mvars, stop_path, cleanup_log, output_path, rate_limiter, clock, admissions,
                   stop_pc, checking, invocations>>
    /\ naming.step = 0
    /\ naming' = [naming EXCEPT
                     !.step = 1,
                     !.filename = GenerateFilename(naming.impl, naming.topic,
                                                   naming.date, naming.owner)]

\* The normalization is applied to the generated filename.
NormalizeAgain ==
    /\ UNCHANGED <<pvars, wvars, mvars, stop_path, cleanup_log, output_path, rate_limiter, clock, admissions,
                   stop_pc, checking, invocations>>
    /\ naming.step = 1
    /\ naming' = [naming EXCEPT
                     !.step = 2,
                     !.again = SanitizeFilename(
                                   AsciifyAndLowercase(naming.impl, naming.filename))]

\* ------------------------------------------------- watcher (watcher.py)
\* Bounds of the watcher models: the seconds counted since a file's last write
\* and since its record was created,
\* the writes a writer makes to one file, and the events waiting in the
\* observer's queue.
MaxIdle == 1

MaxAge == 4

MaxWrites == 2

MaxEvents == 2

\* one more second on a counter that stops at max
Tick(n, max) == IF n < max THEN n + 1 ELSE n

WatchRoot == <<"in">>
WatchSub == <<"in", "d1">>

WatchA == MkPath(WatchRoot, "a", <<>>, "txt")
WatchB == MkPath(WatchSub, "b", <<>>, "txt")

WatchFiles == {WatchA, WatchB}

\* A Python dict: the keys in insertion order, and the values.
EmptyDict == [keys |-> <<>>, val |-> EmptyFn]

DictHas(d, k) == k \in DOMAIN d.val

\* d[k] = v: a new key goes to the end, a known key keeps its place
DictPut(d, k, v) ==
    [keys |-> IF DictHas(d, k) THEN d.keys ELSE Append(d.keys, k),
     val |-> Put(d.val, k, v)]

\* del d[k]
DictDel(d, k) ==
    [keys |-> SelectSeq(d.keys, LAMBDA x : x # k), val |-> Del(d.val, k)]

\* os.stat of a file that has been written n times since its creation: the
\* size counts the chunks and the modification time is the time of the last
\* write, measured in writes.
Stat(n) == [st_size |-> n, st_mtime |-> n]

\* FileState(path, last_modified, size, stable_count=0) from os.stat
FileState(stats) ==
    [last_modified |-> stats.st_mtime, size |-> stats.st_size, stable_count |-> 0]

\* What organize_file does with a file handed to it: it moves it away, it
\* returns without touching it (unsupported), or it raises.
OrganizeResults == {"moved", "skipped", "failed"}

\* The part of the watcher's state that the handler methods read and write.
WatchState == [fst |-> file_states, pend |-> pending_files, files |-> wfs,
               dirs |-> wdirs, ready |-> directory_ready, seen |-> age,
               ho |-> handoffs, res |-> last_result]

\* No call of organize_file yet.
NoHandoff == [n |-> 0, idle |-> 0, via |-> "", open |-> FALSE]

\* FileOrganizer.organize_file(path) as the watchers see it: the file is moved
\* out of the watched tree (and its parent directory removed when that
\* empties it), or left where it is. The call is recorded.
OrganizeFile(w, path, result, via) ==
    LET files2 == IF result = "moved" THEN Del(w.files, path) ELSE w.files
        dirs2 == IF result = "moved" /\ path.dir # WatchRoot
                    /\ {q \in DOMAIN files2 : q.dir = path.dir} = {}
                 THEN w.dirs \ {path.dir}
                 ELSE w.dirs
    IN [w EXCEPT !.files = files2,
                 !.dirs = dirs2,
                 !.ho = [@ EXCEPT ![path] =
                            [n |-> Tick(@.n, 2), idle |-> since_write[path],
                             via |-> via, open |-> path \in wopen]],
                 !.res = [@ EXCEPT ![path] = result]]

\* Watcher._should_process_file(file_path) and
\* FileStabilityHandler.is_output_file(file_path), negated: the output root is
\* not among the parents of the path.
ShouldProcessFile(path) == ~IsRelativeTo(path, output_path)

\* Watcher._process_file(path): organize_file is called unless the path lies
\* under the output root; every exception is caught and logged, so the caller
\* sees no difference between the results.
ProcessFile(w, path, result, via) ==
    IF ShouldProcessFile(path)
    THEN OrganizeFile(w, path, result, via)
    ELSE [w EXCEPT !.res = [@ EXCEPT ![path] = "output"]]

\* FileEventHandler._check_file_stability(path)
CheckFileStability(w, path, result, via) ==
    IF path \notin DOMAIN w.files
    THEN [w EXCEPT !.fst = DictDel(@, path)]
    ELSE IF DictHas(w.fst, path)
    THEN IF w.files[path].st_size = w.fst.val[path].size
            /\ w.files[path].st_mtime = w.fst.val[path].last_modified
         THEN IF w.fst.val[path].stable_count + 1 >= 2
              THEN LET w2 == ProcessFile(w, path, result, via)
                   IN [w2 EXCEPT !.fst = DictDel(@, path)]
              ELSE [w EXCEPT !.fst.val[path].stable_count = @ + 1]
         ELSE [w EXCEPT !.fst.val[path] = FileState(w.files[path])]
    ELSE [w EXCEPT !.fst = DictPut(@, path, FileState(w.files[path])),
                   !.seen = [@ EXCEPT ![path] = 0]]

RECURSIVE IsDirectoryReady(_, _)
\* FileEventHandler._is_directory_ready(directory)
IsDirectoryReady(ready, d) ==
    IF d = WatchRoot \/ d = <<>> THEN TRUE
    ELSE IF d \notin ready THEN FALSE
    ELSE IsDirectoryReady(ready, Parent(d))

\* Mutant of MarkDirectoryReady: no directory is marked.
MarkNothingReady(ready, d) == ready

RECURSIVE MarkDirectoryReady(_, _)
\* FileEventHandler._mark_directory_ready(directory)
MarkDirectoryReady(ready, d) ==
    IF d = WatchRoot \/ d = <<>> THEN ready
    ELSE MarkDirectoryReady(ready \cup {d}, Parent(d))

RECURSIVE ProcessPendingLoop(_, _, _, _)
\* the loop of _process_pending_files over list(pending_files.items())
ProcessPendingLoop(w, items, results, via) ==
    IF items = <<>> THEN w
    ELSE LET path == Head(items)
             w2 == IF IsDirectoryReady(w.ready, path.dir)
                   THEN CheckFileStability(
                            [w EXCEPT !.fst = DictPut(@, path, w.pend.val[path]),
                                      !.pend = DictDel(@, path),
                                      !.seen = [@ EXCEPT ![path] = 0]],
                            path, results[path], via)
                   ELSE w
         IN ProcessPendingLoop(w2, Tail(items), results, via)

\* FileEventHandler._process_pending_files()
ProcessPendingFiles(w, results, via) ==
    ProcessPendingLoop(w, w.pend.keys, results, via)

\* FileEventHandler.on_created(event)
OnCreated(w, ev, results) ==
    IF ev.is_directory
    THEN ProcessPendingFiles(
             [w EXCEPT !.ready = MarkDirectoryReady(@, ev.path)],
             results, "event")
    ELSE IF ~IsDirectoryReady(w.ready, ev.path.dir)
    THEN IF ev.path \in DOMAIN w.files
         THEN [w EXCEPT !.pend = DictPut(@, ev.path,
                                         FileState(w.files[ev.path]))]
         ELSE w
    ELSE IF ev.path \in DOMAIN w.files
    THEN CheckFileStability(
             [w EXCEPT !.fst = DictPut(@, ev.path, FileState(w.files[ev.path])),
                       !.seen = [@ EXCEPT ![ev.path] = 0]],
             ev.path, results[ev.path], "event")
    ELSE w

\* FileEventHandler.on_modified(event) and on_closed(event)
OnModifiedOrClosed(w, ev, results) ==
    IF ev.is_directory THEN w
    ELSE CheckFileStability(w, ev.path, results[ev.path], "event")

\* The watcher after construction, before start_monitoring: the directories
\* ds and the files pre exist already, out is the output root.
WatcherInitWith(ds, pre, out) ==
    /\ output_path = out
    /\ stop_pc = "none"
    /\ checking = [t \in {"tick", "event"} |-> [pc |-> "idle", left |-> 0]]
    /\ wfs = [p \in pre |-> Stat(0)]
    /\ wopen = {}
    /\ wdirs = ds
    /\ events = <<>>
    /\ file_states = EmptyDict
    /\ pending_files = EmptyDict
    /\ directory_ready = {WatchRoot}
    /\ running = FALSE
    /\ tick_pc = "init"
    /\ tick_paths = <<>>
    /\ since_write = [p \in WatchFiles |-> 0]
    /\ age = [p \in WatchFiles |-> 0]
    /\ handoffs = [p \in WatchFiles |-> NoHandoff]
    /\ last_result = [p \in WatchFiles |-> "none"]

WatcherIdle == WatcherInitWith({WatchRoot}, {}, OutputRoot)

Event(kind, path, isdir) == [kind |-> kind, path |-> path, is_directory |-> isdir]

\* The handler methods' result becomes the next state.
SetWatchState(w) ==
    /\ file_states' = w.fst
    /\ pending_files' = w.pend
    /\ wfs' = w.files
    /\ wdirs' = w.dirs
    /\ directory_ready' = w.ready
    /\ age' = [p \in DOMAIN w.seen |->
                  IF DictHas(w.fst, p) THEN w.seen[p] ELSE 0]
    /\ handoffs' = w.ho
    /\ last_result' = w.res

\* ---- the environment: programs writing into the watched tree. With push
\* the observer queues an event for every change (inotify); without it the
\* changes are found by the polling observer's next snapshot.
WriterMkdir(push) ==
    /\ UNCHANGED <<pvars, mvars, cvars>>
    /\ running
    /\ WatchSub \notin wdirs
    /\ \A p \in WatchFiles : last_result[p] = "none"
    /\ Len(events) < MaxEvents
    /\ wdirs' = wdirs \cup {WatchSub}
    /\ events' = IF push THEN Append(events, Event("created", WatchSub, TRUE))
                 ELSE events
    /\ UNCHANGED <<wfs, wopen, file_states, pending_files, directory_ready,
                   running, tick_pc, tick_paths, since_write, age,
                   handoffs, last_result>>

WriterCreate(p, push) ==
    /\ UNCHANGED <<pvars, mvars, cvars>>
    /\ running
    /\ p \notin DOMAIN wfs
    /\ p \notin wopen
    /\ last_result[p] = "none"
    /\ p.dir \in wdirs
    /\ Len(events) < MaxEvents
    /\ wfs' = Put(wfs, p, Stat(0))
    /\ wopen' = wopen \cup {p}
    /\ since_write' = [since_write EXCEPT ![p] = 0]
    /\ events' = IF push THEN Append(events, Event("created", p, FALSE))
                 ELSE events
    /\ UNCHANGED <<wdirs, file_states, pending_files, directory_ready, running,
                   tick_pc, tick_paths, age, handoffs,
                   last_result>>

WriterWrite(p, push) ==
    /\ UNCHANGED <<pvars, mvars, cvars>>
    /\ running
    /\ p \in DOMAIN wfs
    /\ p \in wopen
    \* the file in the subdirectory stays empty, the other is written
    \* MaxWrites times
    /\ wfs[p].st_size < (IF p = WatchA THEN MaxWrites ELSE 0)
    /\ Len(events) < MaxEvents
    /\ wfs' = [wfs EXCEPT ![p] = Stat(@.st_size + 1)]
    /\ since_write' = [since_write EXCEPT ![p] = 0]
    /\ events' = IF push THEN Append(events, Event("modified", p, FALSE))
                 ELSE events
    /\ UNCHANGED <<wopen, wdirs, file_states, pending_files, directory_ready,
                   running, tick_pc, tick_paths, age, handoffs,
                   last_result>>

WriterClose(p, push) ==
    /\ UNCHANGED <<pvars, mvars, cvars>>
    /\ running
    /\ p \in wopen
    /\ Len(events) < MaxEvents
    /\ wopen' = wopen \ {p}
    /\ events' = IF push /\ p \in DOMAIN wfs
                 THEN Append(events, Event("closed", p, FALSE))
                 ELSE events
    /\ UNCHANGED <<wfs, wdirs, file_states, pending_files, directory_ready,
                   running, tick_pc, tick_paths, since_write, age,
                   handoffs, last_result>>

\* A program puts a new, complete file at a path from which the organizer
\* moved a file away. The polling observer reports it at its next snapshot.
WriterRecreate(p) ==
    /\ UNCHANGED <<pvars, mvars, cvars>>
    /\ running
    /\ p \notin DOMAIN wfs
    /\ last_result[p] = "moved"
    /\ handoffs[p].n = 1
    /\ p.dir \in wdirs
    /\ wfs' = Put(wfs, p, Stat(1))
    /\ since_write' = [since_write EXCEPT ![p] = 0]
    /\ UNCHANGED <<wopen, wdirs, events, file_states, pending_files,
                   directory_ready, running, tick_pc, tick_paths, age,
                   handoffs, last_result>>

\* A complete file is renamed into the watched tree: the observer reports it
\* with one created event and nothing else. The notification layer does not
\* order this event with the events already queued.
WriterMoveIn(p) ==
    /\ UNCHANGED <<pvars, mvars, cvars>>
    /\ running \/ tick_pc = "swept"
    /\ p \notin DOMAIN wfs
    /\ p \notin wopen
    /\ last_result[p] = "none"
    /\ p.dir \in wdirs
    /\ Len(events) < MaxEvents
    /\ wfs' = Put(wfs, p, Stat(1))
    /\ since_write' = [since_write EXCEPT ![p] = 0]
    /\ IF running
       THEN \E i \in 0..Len(events) :
               events' = SubSeq(events, 1, i) \o <<Event("created", p, FALSE)>>
                         \o SubSeq(events, i + 1, Len(events))
       ELSE events' = events
    /\ UNCHANGED <<wopen, wdirs, file_states, pending_files, directory_ready,
                   running, tick_pc, tick_paths, age, handoffs, last_result>>

\* Another program sets the closed file's modification time to an earlier
\* time (os.utime, as download and copy tools do to keep the source's
\* timestamp); the size stays.
WriterUtime(p, push) ==
    /\ UNCHANGED <<pvars, mvars, cvars>>
    /\ running
    /\ p \in DOMAIN wfs
    /\ p \notin wopen
    /\ wfs[p].st_mtime = wfs[p].st_size
    /\ Len(events) < MaxEvents
    /\ wfs' = [wfs EXCEPT ![p].st_mtime = @ - 1]
    /\ events' = IF push THEN Append(events, Event("modified", p, FALSE))
                 ELSE events
    /\ UNCHANGED <<wopen, wdirs, file_states, pending_files, directory_ready,
                   running, tick_pc, tick_paths, since_write, age,
                   handoffs, last_result>>

\* ---- the observer's thread, from observer.start() until observer.join()
\* has returned: one event is dispatched to the handler
WatchDispatch ==
    /\ UNCHANGED <<pvars, mvars, cvars>>
    /\ tick_pc # "init"
    /\ stop_pc # "joined"
    /\ events # <<>>
    /\ \E result \in OrganizeResults :
        LET ev == Head(events)
            results == [p \in WatchFiles |-> result]
        IN SetWatchState(IF ev.kind = "created"
                         THEN OnCreated(WatchState, ev, results)
                         ELSE OnModifiedOrClosed(WatchState, ev, results))
    /\ events' = Tail(events)
    /\ UNCHANGED <<wopen, running, tick_pc, tick_paths, since_write>>

\* ---- Watcher.start_monitoring
StartMonitoring ==
    /\ UNCHANGED <<pvars, mvars, cvars>>
    /\ tick_pc \in {"init", "swept"}
    /\ running' = TRUE
    /\ tick_pc' = "top"
    /\ UNCHANGED <<wfs, wopen, wdirs, events, file_states, pending_files,
                   directory_ready, tick_paths, since_write, age,
                   handoffs, last_result>>

\* while self._running: ... list(self.event_handler.file_states.keys())
TickTop ==
    /\ UNCHANGED <<pvars, mvars, cvars>>
    /\ tick_pc = "top"
    /\ IF running
       THEN /\ tick_paths' = file_states.keys
            /\ tick_pc' = "check"
       ELSE /\ tick_paths' = <<>>
            /\ tick_pc' = "exit"
    /\ UNCHANGED <<wfs, wopen, wdirs, events, file_states, pending_files,
                   directory_ready, running, since_write, age,
                   handoffs, last_result>>

\* one iteration of the for loop
TickCheck ==
    /\ UNCHANGED <<pvars, mvars, cvars>>
    /\ tick_pc = "check"
    /\ tick_paths # <<>>
    /\ \E result \in OrganizeResults :
        SetWatchState(CheckFileStability(WatchState, Head(tick_paths), result,
                                         "tick"))
    /\ tick_paths' = Tail(tick_paths)
    /\ UNCHANGED <<wopen, events, running, tick_pc, since_write>>

\* self.event_handler._process_pending_files()
TickPending ==
    /\ UNCHANGED <<pvars, mvars, cvars>>
    /\ tick_pc = "check"
    /\ tick_paths = <<>>
    /\ \E result \in OrganizeResults :
        SetWatchState(ProcessPendingFiles(WatchState,
                                          [p \in WatchFiles |-> result],
                                          "tick"))
    /\ tick_pc' = "sleep"
    /\ UNCHANGED <<wopen, events, running, tick_paths, since_write>>

\* time.sleep(1)
TickSleep ==
    /\ UNCHANGED <<pvars, mvars, cvars>>
    /\ tick_pc = "sleep"
    /\ since_write' = [p \in WatchFiles |->
                          IF p \in DOMAIN wfs
                          THEN Tick(since_write[p], MaxIdle) ELSE 0]
    /\ age' = [p \in WatchFiles |->
                  IF DictHas(file_states, p) THEN Tick(age[p], MaxAge) ELSE 0]
    /\ tick_pc' = "top"
    /\ UNCHANGED <<wfs, wopen, wdirs, events, file_states, pending_files,
                   directory_ready, running, tick_paths, handoffs, last_result>>

\* ---- Watcher.stop, called from another thread (watcher_test.py 168)
\* self._running = False
StopFlag ==
    /\ UNCHANGED <<pvars, mvars, stop_path, cleanup_log, output_path, rate_limiter, clock, admissions, naming,
                   checking, invocations>>
    /\ tick_pc # "init"
    /\ stop_pc = "none"
    /\ running' = FALSE
    /\ stop_pc' = "flag"
    /\ UNCHANGED <<wfs, wopen, wdirs, events, file_states, pending_files,
                   directory_ready, tick_pc, tick_paths, since_write, age,
                   handoffs, last_result>>

\* self.observer.stop(); self.observer.join(): the observer's thread has
\* ended, the events still queued are never dispatched.
StopObserver ==
    /\ UNCHANGED <<pvars, mvars, stop_path, cleanup_log, output_path, rate_limiter, clock, admissions, naming,
                   checking, invocations>>
    /\ stop_pc = "flag"
    /\ stop_pc' = "joined"
    /\ UNCHANGED wvars

\* ---- _check_file_stability(path) run by two threads: the monitoring loop
\* ("tick", watcher.py 229-230) and the observer's thread ("event", on_modified
\* and on_closed). There is no lock in watcher.py. A call is three steps: the
\* lines up to the call of _process_file, the call, and the del.
\* The calls each thread makes.
MaxChecks == 3

\* Lines 81-91 and 94-108: all of the call unless the file is found stable.
CheckEnter(t) ==
    /\ UNCHANGED <<pvars, mvars, stop_path, cleanup_log, output_path, rate_limiter, clock, admissions, naming,
                   stop_pc, invocations>>
    /\ checking[t].pc = "idle"
    /\ checking[t].left > 0
    /\ IF /\ WatchA \in DOMAIN wfs
          /\ DictHas(file_states, WatchA)
          /\ wfs[WatchA].st_size = file_states.val[WatchA].size
          /\ wfs[WatchA].st_mtime = file_states.val[WatchA].last_modified
          /\ file_states.val[WatchA].stable_count + 1 >= 2
       THEN /\ file_states' = [file_states EXCEPT !.val[WatchA].stable_count = @ + 1]
            /\ checking' = [checking EXCEPT ![t].pc = "process"]
            /\ UNCHANGED <<wfs, wdirs, pending_files, directory_ready, age,
                           handoffs, last_result>>
       ELSE /\ SetWatchState(CheckFileStability(WatchState, WatchA, "skipped", t))
            /\ checking' = [checking EXCEPT ![t].left = @ - 1]
    /\ UNCHANGED <<wopen, events, running, tick_pc, tick_paths, since_write>>

\* Line 92: self.watcher._process_file(path)
CheckProcess(t) ==
    /\ UNCHANGED <<pvars, mvars, stop_path, cleanup_log, output_path, rate_limiter, clock, admissions, naming,
                   stop_pc, invocations>>
    /\ checking[t].pc = "process"
    /\ \E result \in OrganizeResults :
          /\ result = "moved" => WatchA \in DOMAIN wfs
          /\ SetWatchState(ProcessFile(WatchState, WatchA, result, t))
    /\ checking' = [checking EXCEPT ![t].pc = "del"]
    /\ UNCHANGED <<wopen, events, running, tick_pc, tick_paths, since_write>>

\* Line 93: del self.file_states[path], a KeyError when the key is gone. The
\* exception is caught nowhere and ends the thread.
CheckDelete(t) ==
    /\ UNCHANGED <<pvars, mvars, stop_path, cleanup_log, output_path, rate_limiter, clock, admissions, naming,
                   stop_pc, invocations>>
    /\ checking[t].pc = "del"
    /\ IF DictHas(file_states, WatchA)
       THEN /\ file_states' = DictDel(file_states, WatchA)
            /\ checking' = [checking EXCEPT ![t] = [pc |-> "idle", left |-> @.left - 1]]
       ELSE /\ checking' = [checking EXCEPT ![t].pc = "KeyError"]
            /\ UNCHANGED file_states
    /\ UNCHANGED <<wfs, wopen, wdirs, events, pending_files, directory_ready,
                   running, tick_pc, tick_paths, since_write, age, handoffs,
                   last_result>>

\* ---------------------------------------------------- monitor (main.py)
\* FileStabilityHandler(max_retries=3, stability_timeout=300): the timeout is
\* scaled down to a few seconds, long enough for max_retries attempts.
max_retries == 3

stability_timeout == 4

MonitorIdle ==
    /\ tracked_files = EmptyDict
    /\ stable_files = {}
    /\ since_check = 0
    /\ snapshot = [files |-> EmptyFn, dirs |-> {WatchRoot}]
    /\ poll_phase = FALSE

\* The part of the monitor's state that the handler methods read and write.
MonitorState == [trk |-> tracked_files, stable |-> stable_files, files |-> wfs,
                 dirs |-> wdirs, ho |-> handoffs, res |-> last_result]

Metadata(stats) ==
    [size |-> stats.st_size, last_modified |-> stats.st_mtime,
     stable_count |-> 0, retries |-> 0, age |-> 0]

\* Mutant of TrackCreated: the is_output_file test is dropped.
TrackCreatedUnfiltered(m, ev) ==
    IF ~ev.is_directory /\ ev.path \in DOMAIN m.files
    THEN [m EXCEPT !.trk = DictPut(@, ev.path, Metadata(m.files[ev.path]))]
    ELSE m

\* FileStabilityHandler.on_created(event)
TrackCreated(m, ev) ==
    IF ev.is_directory THEN m
    ELSE IF ~ShouldProcessFile(ev.path)
    THEN [m EXCEPT !.res = [@ EXCEPT ![ev.path] = "output"]]
    ELSE IF ev.path \in DOMAIN m.files
    THEN [m EXCEPT !.trk = DictPut(@, ev.path, Metadata(m.files[ev.path]))]
    ELSE m

\* Mutant of ProcessStableFile: the test of retries against max_retries is
\* dropped.
ProcessStableFileUnbounded(m, path, result) ==
    LET m2 == OrganizeFile(m, path, result, "event")
    IN IF result = "failed"
       THEN [m2 EXCEPT !.trk.val[path].retries = @ + 1]
       ELSE [m2 EXCEPT !.stable = @ \cup {path}]

\* FileStabilityHandler._process_stable_file(file_path, metadata)
ProcessStableFile(m, path, result) ==
    IF m.trk.val[path].retries >= max_retries
    THEN [m EXCEPT !.stable = @ \cup {path}]
    ELSE LET m2 == OrganizeFile(m, path, result, "event")
         IN IF result = "failed"
            THEN [m2 EXCEPT !.trk.val[path].retries = @ + 1]
            ELSE [m2 EXCEPT !.stable = @ \cup {path}]

RECURSIVE PopAll(_, _)
\* for file_path in files_to_remove: self.tracked_files.pop(file_path, None)
PopAll(d, files_to_remove) ==
    IF files_to_remove = {} THEN d
    ELSE LET k == CHOOSE x \in files_to_remove : TRUE
         IN PopAll(DictDel(d, k), files_to_remove \ {k})

RECURSIVE CheckStabilityLoop(_, _, _, _)
\* the loop of check_file_stability over list(self.tracked_files.items())
CheckStabilityLoop(m, items, files_to_remove, results) ==
    IF items = <<>> THEN [m EXCEPT !.trk = PopAll(@, files_to_remove)]
    ELSE
      LET path == Head(items)
          metadata == m.trk.val[path]
          rest == Tail(items)
          reset == [metadata EXCEPT !.size = m.files[path].st_size,
                                    !.last_modified = m.files[path].st_mtime,
                                    !.stable_count = 0]
      IN IF path \in m.stable
         THEN CheckStabilityLoop(m, rest, files_to_remove \cup {path}, results)
         ELSE IF path \notin DOMAIN m.files
         THEN CheckStabilityLoop(m, rest, files_to_remove \cup {path}, results)
         ELSE IF metadata.age > stability_timeout
         THEN CheckStabilityLoop(m, rest, files_to_remove \cup {path}, results)
         ELSE IF m.files[path].st_mtime > metadata.last_modified
         THEN CheckStabilityLoop([m EXCEPT !.trk.val[path] = reset], rest,
                                 files_to_remove, results)
         ELSE IF m.files[path].st_size = metadata.size
         THEN IF metadata.stable_count + 1 >= 2
              THEN LET m2 == ProcessStableFile(
                                 [m EXCEPT !.trk.val[path].stable_count = @ + 1],
                                 path, results[path])
                   IN CheckStabilityLoop(
                          m2, rest,
                          IF path \in m2.stable
                          THEN files_to_remove \cup {path}
                          ELSE files_to_remove,
                          results)
              ELSE CheckStabilityLoop(
                       [m EXCEPT !.trk.val[path].stable_count = @ + 1], rest,
                       files_to_remove, results)
         ELSE CheckStabilityLoop([m EXCEPT !.trk.val[path] = reset], rest,
                                 files_to_remove, results)

SetMonitorState(m) ==
    /\ tracked_files' = m.trk
    /\ stable_files' = m.stable
    /\ wfs' = m.files
    /\ wdirs' = m.dirs
    /\ handoffs' = m.ho
    /\ last_result' = m.res

\* files.sort(key=lambda p: len(p.parents), reverse=True)
RECURSIVE DeepestFirst(_)
DeepestFirst(S) ==
    IF S = {} THEN <<>>
    ELSE LET x == CHOOSE y \in S : \A z \in S : Len(z.dir) <= Len(y.dir)
         IN <<x>> \o DeepestFirst(S \ {x})

RECURSIVE OrganizeDirectoryLoop(_, _, _)
\* the loop of FileOrganizer.organize_directory: a path under the output root
\* is skipped, an exception of organize_file is logged
OrganizeDirectoryLoop(m, files, results) ==
    IF files = <<>> THEN m
    ELSE LET file_path == Head(files)
             m2 == IF IsRelativeTo(file_path, output_path)
                   THEN [m EXCEPT !.res = [@ EXCEPT ![file_path] = "output"]]
                   ELSE OrganizeFile(m, file_path, results[file_path], "sweep")
         IN OrganizeDirectoryLoop(m2, Tail(files), results)

\* Watcher.process_existing_files(): organize_directory over the files that
\* rglob lists. The entries put on file_queue are read by nothing.
ProcessExistingFiles ==
    /\ UNCHANGED <<pvars, mvars, cvars>>
    /\ tick_pc = "init"
    /\ tick_pc' = "swept"
    /\ \E result \in OrganizeResults :
          SetWatchState(OrganizeDirectoryLoop(WatchState, DeepestFirst(DOMAIN wfs),
                                             [p \in WatchFiles |-> result]))
    /\ UNCHANGED <<wopen, events, running, tick_paths, since_write>>

\* Monitor.start(): organize_directory over the files that exist already,
\* then the observer is scheduled and started
MonitorStart ==
    /\ UNCHANGED <<pvars, cvars, file_states, pending_files, directory_ready, tick_paths,
                   age>>
    /\ tick_pc = "init"
    /\ running' = TRUE
    /\ tick_pc' = "observing"
    /\ \E result \in OrganizeResults :
          LET m == OrganizeDirectoryLoop(MonitorState, DeepestFirst(DOMAIN wfs),
                                         [p \in WatchFiles |-> result])
          IN /\ SetMonitorState(m)
             /\ snapshot' = [files |-> m.files, dirs |-> m.dirs]
    /\ UNCHANGED <<wopen, events, since_write, since_check, poll_phase>>

\* The events of one poll: the difference between the last snapshot and the
\* tree, files before directories.
PollEvents ==
    LET deleted == {q \in DOMAIN snapshot.files : q \notin DOMAIN wfs}
        modified == {q \in DOMAIN snapshot.files \cap DOMAIN wfs :
                        snapshot.files[q] # wfs[q]}
        created == DOMAIN wfs \ DOMAIN snapshot.files
        ToEvents(S, kind) ==
            LET paths == SortPaths(S)
            IN [i \in 1..Len(paths) |-> Event(kind, paths[i], FALSE)]
    IN ToEvents(deleted, "deleted") \o ToEvents(modified, "modified")
       \o ToEvents(created, "created")
       \o (IF WatchSub \in wdirs \ snapshot.dirs
           THEN <<Event("created", WatchSub, TRUE)>> ELSE <<>>)

\* A poll interval (1 s) passes and the polling observer takes its next
\* snapshot; it goes on polling for as long as the monitor runs.
MonitorPoll ==
    /\ UNCHANGED <<pvars, cvars, file_states, pending_files, directory_ready, tick_paths,
                   age>>
    /\ tick_pc = "observing"
    /\ Len(events) + Len(PollEvents) <= MaxEvents
    /\ events' = events \o PollEvents
    /\ snapshot' = [files |-> wfs, dirs |-> wdirs]
    /\ since_write' = [p \in WatchFiles |->
                          IF p \in DOMAIN wfs
                          THEN Tick(since_write[p], MaxIdle) ELSE 0]
    /\ since_check' = 1
    /\ poll_phase' = ~poll_phase
    /\ tracked_files' =
         [tracked_files EXCEPT !.val =
             [k \in DOMAIN @ |->
                 [@[k] EXCEPT !.age = Tick(@, stability_timeout + 1)]]]
    /\ UNCHANGED <<wfs, wopen, wdirs, running, tick_pc, handoffs, last_result,
                   stable_files>>

\* FileStabilityHandler.dispatch(event)
MonitorDispatch ==
    /\ UNCHANGED <<pvars, cvars, file_states, pending_files, directory_ready, tick_paths,
                   age>>
    /\ tick_pc = "observing"
    /\ events # <<>>
    /\ \E results \in [WatchFiles -> OrganizeResults] :
        LET ev == Head(events)
            m1 == IF ev.kind = "created" THEN TrackCreated(MonitorState, ev)
                  ELSE MonitorState
        IN IF since_check >= 1
           THEN /\ SetMonitorState(CheckStabilityLoop(m1, m1.trk.keys, {},
                                                   results))
                /\ since_check' = 0
           ELSE /\ SetMonitorState(m1)
                /\ since_check' = since_check
    /\ events' = Tail(events)
    /\ UNCHANGED <<wopen, running, tick_pc, since_write, snapshot, poll_phase>>

\* --------------------------------------------------------- specifications
vars == <<pvars, wvars, mvars, cvars>>

PipelineIdle == PipeInitWith(EmptyFn) /\ remove_input_files

\* Two documents of any content, one file without a handler, and up to two
\* files already under the output root.
PipelineInit ==
    /\ \E ca, cc \in Contents, pre \in SUBSET PreFiles :
           PipeInitWith([p \in {FileA, FileC, FileX} \cup pre |->
                            CASE p = FileA -> ca
                              [] p = FileC -> cc
                              [] OTHER -> 1])
    /\ WatcherIdle /\ MonitorIdle /\ CleanupIdle /\ RateLimiterIdle /\ NamingIdle

\* Three documents of pairwise distinct content, and possibly one file already
\* in the category directory.
VersioningInit ==
    /\ \E ca, cb, cc \in Contents, pre \in SUBSET {PreWork} :
           /\ ca # cb /\ ca # cc /\ cb # cc
           /\ PipeInitWith([p \in {FileA, FileB, FileC} \cup pre |->
                               CASE p = FileA -> ca
                                 [] p = FileB -> cb
                                 [] p = FileC -> cc
                                 [] OTHER -> 1])
    /\ WatcherIdle /\ MonitorIdle /\ CleanupIdle /\ RateLimiterIdle /\ NamingIdle

\* The watched tree is empty; the subdirectory may exist already, and it may
\* be the output root.
WatcherInit ==
    /\ \E ds \in {{WatchRoot}, {WatchRoot, WatchSub}}, out \in {OutputRoot, WatchSub} :
           /\ out = WatchSub => WatchSub \in ds
           /\ WatcherInitWith(ds, {}, out)
    /\ PipelineIdle /\ MonitorIdle /\ CleanupIdle /\ RateLimiterIdle /\ NamingIdle

\* As WatcherInit, and a file may lie in the subdirectory already.
MonitorInit ==
    /\ \E ds \in {{WatchRoot}, {WatchRoot, WatchSub}}, out \in {OutputRoot, WatchSub},
          pre \in SUBSET {WatchB} :
           /\ out = WatchSub => WatchSub \in ds
           /\ pre # {} => WatchSub \in ds
           /\ WatcherInitWith(ds, pre, out)
    /\ PipelineIdle /\ MonitorIdle /\ CleanupIdle /\ RateLimiterIdle /\ NamingIdle

\* The watcher constructed on an empty tree with the output root outside it.
EmptyTreeInit ==
    PipelineIdle /\ WatcherIdle /\ MonitorIdle /\ CleanupIdle /\ RateLimiterIdle /\ NamingIdle

\* Two documents of distinct content in the input tree, an empty output tree,
\* and two threads about to call process on the same pipeline, one for each
\* document.
SharedInit ==
    /\ \E ca, cc \in Contents :
          /\ ca # cc
          /\ fs = [p \in {FileA, FileC} |-> IF p = FileA THEN ca ELSE cc]
    /\ orig = fs
    /\ invocations = [t \in 1..2 |->
                         [file_path |-> IF t = 1 THEN FileA ELSE FileC,
                          pc |-> "call", returned |-> NoPath, raised |-> FALSE]]
    /\ pc = "threads"
    /\ dirs = InputDirs
    /\ file_hash_dict = EmptyFn /\ file_size_dict = EmptyFn /\ hash_scanned = FALSE
    /\ remove_input_files = TRUE
    /\ state = NoState /\ new_path = NoPath /\ todo = {} /\ temps = {}
    /\ initial_out = {} /\ outcome = EmptyFn /\ placed = <<>>
    /\ WatcherIdle /\ MonitorIdle /\ CleanupIdle /\ RateLimiterIdle /\ NamingIdle

\* The watcher is monitoring; in/a.txt has been created, the handler has its
\* record, checked once or not yet, and the writer may still hold the file
\* open.
RaceInit ==
    /\ \E open \in SUBSET {WatchA}, count \in 0..1 :
          /\ wopen = open
          /\ file_states = DictPut(EmptyDict, WatchA,
                                   [FileState(Stat(0)) EXCEPT !.stable_count = count])
    /\ checking = [t \in {"tick", "event"} |-> [pc |-> "idle", left |-> MaxChecks]]
    /\ wfs = [p \in {WatchA} |-> Stat(0)]
    /\ wdirs = {WatchRoot}
    /\ output_path = OutputRoot
    /\ stop_pc = "none"
    /\ events = <<>>
    /\ pending_files = EmptyDict
    /\ directory_ready = {WatchRoot}
    /\ running = TRUE
    /\ tick_pc = "check"
    /\ tick_paths = <<>>
    /\ since_write = [p \in WatchFiles |-> 0]
    /\ age = [p \in WatchFiles |-> 0]
    /\ handoffs = [p \in WatchFiles |-> NoHandoff]
    /\ last_result = [p \in WatchFiles |-> "none"]
    /\ PipelineIdle /\ MonitorIdle /\ CleanupIdle /\ RateLimiterIdle /\ NamingIdle

\* A tree on disk: directories closed under parents, files in some of them,
\* and in/ or in/d1 configured as the input root. With in/d1 as root, in/ is
\* an ancestor of the root and in/e1 lies outside it.
CleanupInit ==
    /\ \E ds \in SUBSET TreeDirs, files \in SUBSET TreeFiles,
          stop \in {<<"in">>, <<"in", "d1">>} :
          /\ {<<"in">>, <<"in", "d1">>} \subseteq ds
          /\ \A d \in ds : Len(d) > 1 => Parent(d) \in ds
          /\ \A p \in files : p.dir \in ds
          /\ fs = [p \in files |-> 1]
          /\ dirs = ds
          /\ stop_path = stop
    /\ cleanup_log = [by |-> "none", start |-> <<>>, dirs |-> {}, files |-> {}]
    /\ pc = "tree"
    /\ file_hash_dict = EmptyFn /\ file_size_dict = EmptyFn /\ hash_scanned = FALSE
    /\ remove_input_files = TRUE
    /\ state = NoState /\ new_path = NoPath /\ todo = {} /\ temps = {}
    /\ orig = EmptyFn /\ initial_out = {} /\ outcome = EmptyFn /\ placed = <<>>
    /\ invocations = <<>>
    /\ WatcherIdle
    /\ MonitorIdle
    /\ RateLimiterIdle
    /\ NamingIdle

\* Any set of existing versions of the two base paths, gaps included, and a
\* base path about to be made unique.
UniqueInit ==
    /\ \E existing \in SUBSET {[b EXCEPT !.sfx = @ \o s] :
                                 b \in UniqueBases,
                                 s \in {<<>>} \cup {<<n>> : n \in 1..MaxVersions}} :
          fs = [p \in existing |-> 1]
    /\ new_path \in UniqueBases
    /\ pc = "unique"
    /\ dirs = InputDirs
    /\ file_hash_dict = EmptyFn /\ file_size_dict = EmptyFn /\ hash_scanned = FALSE
    /\ remove_input_files = TRUE
    /\ state = NoState /\ todo = {} /\ temps = {}
    /\ orig = EmptyFn /\ initial_out = {} /\ outcome = EmptyFn /\ placed = <<>>
    /\ invocations = <<>>
    /\ WatcherIdle
    /\ MonitorIdle
    /\ CleanupIdle
    /\ RateLimiterIdle
    /\ NamingIdle

\* A new rate limiter of any capacity and window; nothing else is running.
RateLimiterInit ==
    /\ \E max_calls \in 1..MaxCalls, time_window \in 1..MaxWindow :
          rate_limiter = [max_calls |-> max_calls, time_window |-> time_window,
                          calls |-> <<>>]
    /\ clock = 0
    /\ admissions = <<>>
    /\ PipelineIdle
    /\ WatcherIdle
    /\ MonitorIdle
    /\ CleanupIdle
    /\ NamingIdle

\* A classification result: any doc_topic of up to MaxLen characters, with or
\* without a date and an owner, named by either implementation. The characters
\* are ASCII letters of both cases, a digit, the hyphen, the space and the tab,
\* a capital letter the code transliterates, the dotted capital I and a
\* punctuation mark.
NamingInit ==
    /\ \E impl \in {"categorizer", "renamer"}, n \in 0..MaxLen,
          date \in {<<>>, <<"1">>}, owner \in {<<>>, <<"A", " ">>} :
          \E topic \in [1..n -> {"A", "a", "1", "-", " ", "tab", "CCED", "IDOT", "!"}] :
              naming = [impl |-> impl, topic |-> topic, date |-> date,
                        owner |-> owner, step |-> 0, filename |-> <<>>,
                        again |-> <<>>]
    /\ PipelineIdle
    /\ WatcherIdle
    /\ MonitorIdle
    /\ CleanupIdle
    /\ RateLimiterIdle

PipelineNext ==
    \/ \E p \in InputFiles : PipeStart(p)
    \/ PipeExtract
    \/ PipeCategorize
    \/ PipeDestination
    \/ PipeCopy
    \/ PipeRemove
    \/ PipeExcept
    \/ PipeFinish

\* The document pipeline run over the files of the input tree, one at a time.
PipelineSpec == PipelineInit /\ [][PipelineNext]_vars

\* Processor.__init__ builds its file operator with remove_input_files=True.
SweepInit == PipelineInit /\ remove_input_files

\* The startup sweep of Processor.process_existing_files over the input tree.
SweepSpec ==
    /\ SweepInit
    /\ [][\/ \E p \in InputFiles : SweepStart(p)
          \/ PipeExtract
          \/ PipeCategorize
          \/ PipeDestination
          \/ PipeCopy
          \/ PipeRemove
          \/ PipeExcept
          \/ SweepReturn
          \/ SweepExcept]_vars

\* Directory cleanup applied to the trees of the model, from any start path
\* and after the removal of any file.
CleanupSpec ==
    /\ CleanupInit
    /\ [][\/ \E start \in TreeDirs : TreeCleanup(start)
          \/ \E p \in TreeFiles : TreeRemoveFile(p)
          \/ \E p \in TreeFiles : TreeOrganizeFile(p)]_vars

\* Sequential callers of one rate limiter, with time passing between calls.
RateLimiterSpec ==
    /\ RateLimiterInit
    /\ [][\/ WaitIfNeeded
          \/ ClockTick]_vars

\* ensure_unique_path called again and again on a growing directory.
UniqueSpec ==
    /\ UniqueInit
    /\ [][\/ EnsureUnique
          \/ UniquePlace]_vars

\* The filename of a classification result, generated and normalized again.
NamingSpec ==
    /\ NamingInit
    /\ [][\/ NameDocument
          \/ NormalizeAgain]_vars

\* The same pipeline run over three documents of pairwise distinct content.
VersioningSpec == VersioningInit /\ [][PipelineNext]_vars

\* The event-driven watcher of watcher.py with programs writing two files.
WatcherSpec ==
    /\ WatcherInit
    /\ [][\/ StartMonitoring
          \/ WriterMkdir(TRUE)
          \/ \E p \in WatchFiles : WriterCreate(p, TRUE)
          \/ \E p \in WatchFiles : WriterWrite(p, TRUE)
          \/ \E p \in WatchFiles : WriterClose(p, TRUE)
          \/ WatchDispatch
          \/ TickTop
          \/ TickCheck
          \/ TickPending
          \/ TickSleep]_vars

\* Two calls of process interleaved on one DocumentPipeline.
SharedSpec == SharedInit /\ [][\E t \in 1..2 : ProcessStep(t)]_vars

\* Two calls of organize_file interleaved, one for each document.
InterleavedSpec == SharedInit /\ [][\E t \in 1..2 : OrganizeStep(t)]_vars

\* The monitoring loop and the observer's thread both checking in/a.txt.
RaceSpec ==
    /\ RaceInit
    /\ [][\/ \E t \in {"tick", "event"} : CheckEnter(t)
          \/ \E t \in {"tick", "event"} : CheckProcess(t)
          \/ \E t \in {"tick", "event"} : CheckDelete(t)
          \/ WriterWrite(WatchA, FALSE)
          \/ WriterClose(WatchA, FALSE)]_vars

\* The watcher, a program writing one file, and a thread that calls stop() at
\* any moment after start_monitoring has begun.
StopSpec ==
    /\ EmptyTreeInit
    /\ [][\/ StartMonitoring
          \/ WriterCreate(WatchA, TRUE)
          \/ WriterWrite(WatchA, TRUE)
          \/ WriterClose(WatchA, TRUE)
          \/ WatchDispatch
          \/ TickTop
          \/ TickCheck
          \/ TickPending
          \/ TickSleep
          \/ StopFlag
          \/ StopObserver]_vars

MonitorNext ==
    \/ MonitorStart
    \/ WriterMkdir(FALSE)
    \/ \E p \in WatchFiles : WriterCreate(p, FALSE)
    \/ \E p \in WatchFiles : WriterWrite(p, FALSE)
    \/ \E p \in WatchFiles : WriterClose(p, FALSE)
    \/ MonitorPoll
    \/ MonitorDispatch

\* The polling monitor of main.py with programs writing two files.
MonitorSpec == MonitorInit /\ [][MonitorNext]_vars

\* The pipeline on a long-running watcher: between the documents, files that
\* were under the output root at the scan are deleted by their owner.
StaleSpec ==
    /\ PipelineInit
    /\ [][\/ PipelineNext
          \/ \E q \in PreFiles : OutputRemoved(q)]_vars

\* FileOrganizer called for three documents of pairwise distinct content, in
\* any order, some files being unreadable at the time of a call.
OrganizerSpec == VersioningInit /\ [][\E p \in InputFiles : OrganizerOrganizeFile(p)]_vars

\* The watcher on a tree whose subdirectory exists already or is created
\* while it runs; complete files are renamed into the tree. The observer's
\* thread and the monitoring loop keep running.
ArrivalInit ==
    /\ \E ds \in {{WatchRoot}, {WatchRoot, WatchSub}} :
           WatcherInitWith(ds, {}, OutputRoot)
    /\ PipelineIdle /\ MonitorIdle /\ CleanupIdle /\ RateLimiterIdle /\ NamingIdle

ArrivalSpec ==
    /\ ArrivalInit
    /\ [][\/ StartMonitoring
          \/ WriterMkdir(TRUE)
          \/ \E p \in WatchFiles : WriterMoveIn(p)
          \/ WatchDispatch
          \/ TickTop
          \/ TickCheck
          \/ TickPending
          \/ TickSleep]_vars
    /\ WF_vars(WatchDispatch)
    /\ WF_vars(TickTop) /\ WF_vars(TickCheck)
    /\ WF_vars(TickPending) /\ WF_vars(TickSleep)

\* A file operator over a tree of documents and stored files, its three
\* operations called with any file as the source and a destination inside or
\* outside the output root.
OperatorSpec ==
    /\ PipelineInit
    /\ [][\/ \E source \in InputFiles \cup PreFiles, destination \in {FileA, PreWork} :
                MoveFile(source, destination)
          \/ \E source \in InputFiles \cup PreFiles, destination \in {FileA, PreWork} :
                CopyFile(source, destination)
          \/ \E file_path \in InputFiles \cup PreFiles :
                RemoveFile(file_path)]_vars

\* Watcher.start(): the sweep over the files that exist, then the observer and
\* the monitoring loop, with files renamed into the tree at any time after the
\* sweep.
StartSpec ==
    /\ MonitorInit
    /\ [][\/ ProcessExistingFiles
          \/ StartMonitoring
          \/ \E p \in WatchFiles : WriterMoveIn(p)
          \/ WatchDispatch
          \/ TickTop
          \/ TickCheck
          \/ TickPending
          \/ TickSleep]_vars
    /\ WF_vars(StartMonitoring) /\ WF_vars(WatchDispatch)
    /\ WF_vars(TickTop) /\ WF_vars(TickCheck)
    /\ WF_vars(TickPending) /\ WF_vars(TickSleep)

\* The polling monitor with programs that write files and put a new file at
\* a path whose file was moved away by the organizer.
RecreateSpec ==
    /\ MonitorInit
    /\ [][\/ MonitorNext
          \/ \E p \in WatchFiles : WriterRecreate(p)]_vars

\* The polling monitor with one program writing a file and setting its
\* modification time afterwards.
UtimeSpec ==
    /\ EmptyTreeInit
    /\ [][\/ MonitorStart
          \/ WriterCreate(WatchA, FALSE)
          \/ WriterWrite(WatchA, FALSE)
          \/ WriterClose(WatchA, FALSE)
          \/ WriterUtime(WatchA, FALSE)
          \/ MonitorPoll
          \/ MonitorDispatch]_vars

\* The monitor with its two threads scheduled fairly: the observer keeps
\* polling and queued events keep being dispatched.
MonitorFairSpec ==
    /\ MonitorSpec
    /\ WF_vars(MonitorPoll)
    /\ WF_vars(MonitorDispatch)

\* ------------------------------------------------------ pipeline properties
\* process(p) has returned or raised.
Ended(p) == p \in DOMAIN orig /\ p \notin todo /\ state.original_path # p

AtOrigin(p) == p \in DOMAIN fs /\ fs[p] = orig[p]

\* The complete files under the output root that hold the bytes of p.
OutputCopies(p) ==
    {q \in DOMAIN fs : IsRelativeTo(q, OutputRoot) /\ fs[q] = orig[p]}

AtTarget(p) ==
    /\ outcome[p].target # NoPath
    /\ outcome[p].target \in OutputCopies(p)

C2_CopyThenDelete ==
    \A p \in DOMAIN orig :
        (outcome[p].route \in {"none", "placed", "copyfail"} /\ p \notin DOMAIN fs)
            => (outcome[p].route = "placed" /\ AtTarget(p))

\* Between the two steps: the copy is complete at the destination and the
\* original has not been removed yet.
C2_Witness ==
    /\ pc = "remove"
    /\ AtOrigin(state.original_path)
    /\ AtTarget(state.original_path)
    /\ state.target_path = outcome[state.original_path].target

\* The file went through extraction and classification and was not stopped
\* by an error.
Classified(p) == Ended(p) /\ outcome[p].why = "" /\ outcome[p].route = "placed"

\* C3: deduplication. When two input files with the same bytes have both been
\* processed (whatever names the classifier gave them) and no file with those
\* bytes was under the output root before, exactly one file with those bytes
\* is under the output root.
C3_Deduplication ==
    \A p, q \in DOMAIN orig :
        (/\ p # q
         /\ orig[p] = orig[q]
         /\ remove_input_files
         /\ Classified(p) /\ Classified(q)
         /\ \A o \in initial_out : o \notin OutputCopies(p))
            => Cardinality(OutputCopies(p)) = 1

SameBase(r, t) == r.base = t.base

\* The number of placements before the i-th one that were made under the
\* same computed name, folder and extension.
EarlierSame(i) ==
    Cardinality({j \in 1..(i - 1) : SameBase(placed[j], placed[i])
                                    /\ placed[j].dup = NoPath})

\* No file of that name (in any version) lay in the folder at startup, and no
\* truncated file has been left there by a failed copy.
FreshName(b) ==
    \A q \in initial_out \cup {x \in DOMAIN fs : ~IsComplete(fs[x])} :
        ~(q.dir = b.dir /\ q.name = b.name /\ q.ext = b.ext)

\* C4: versioning. Files of pairwise distinct content that are given the same
\* name and folder are placed, in processing order, at name.ext, name_1.ext,
\* name_2.ext, ...; every placement is at a path of its own and still holds
\* the bytes that were placed there.
C4_Versioning ==
    /\ \A i \in 1..Len(placed) :
          (placed[i].dup = NoPath /\ FreshName(placed[i].base))
              => placed[i].dst =
                     IF EarlierSame(i) = 0 THEN placed[i].base
                     ELSE [placed[i].base EXCEPT !.sfx = <<EarlierSame(i)>>]
    /\ \A i \in 1..Len(placed) :
          /\ placed[i].dst \in DOMAIN fs
          /\ fs[placed[i].dst] = placed[i].content
          /\ \A j \in 1..Len(placed) : j # i => placed[j].dst # placed[i].dst
          /\ placed[i].dst \notin initial_out

\* Three files of distinct content were given one name and lie at name.ext,
\* name_1.ext and name_2.ext.
C4_Witness ==
    /\ Len(placed) = 3
    /\ \A i \in 1..3 : placed[i].dup = NoPath /\ placed[i].base = placed[1].base
    /\ FreshName(placed[1].base)
    /\ placed[1].dst.sfx = <<>>
    /\ placed[2].dst.sfx = <<1>>
    /\ placed[3].dst.sfx = <<2>>

\* C5: a file whose extension has no handler is left untouched: after process
\* it is at its original path with the same content, nothing holds its bytes
\* under the output root that was not there before, and its parent directory
\* still exists.
C5_NoHandlerUntouched ==
    \A p \in DOMAIN orig :
        (Ended(p) /\ GetHandler(p.ext) = "none")
            => /\ AtOrigin(p)
               /\ OutputCopies(p) \subseteq initial_out
               /\ p.dir \in dirs

\* Extraction failed for a supported extension, or the classifier failed.
FailedDocument(p) == Ended(p) /\ outcome[p].why \in {"extract", "classify"}

\* C6 as stated: after an extraction or classifier failure the file is under
\* unsupported/ with identical content and absent from its input path.
C6_AlwaysRelocated ==
    \A p \in DOMAIN orig :
        FailedDocument(p)
            => /\ p \notin DOMAIN fs
               /\ \E q \in OutputCopies(p) : IsRelativeTo(q, UnsupportedDir)

\* C6 amended: after an extraction or classifier failure the file is never
\* placed in a category directory and never deleted without a complete copy
\* under unsupported/. It is absent from its input path, with the copy that
\* process returned under unsupported/, unless the relocation itself failed
\* (move_to_unsupported raised, or the removal of a duplicate's input failed):
\* then it is unchanged at its input path.
C6_RelocatedUnlessMoveFails ==
    \A p \in DOMAIN orig :
        FailedDocument(p)
            => /\ outcome[p].route \in {"unsup_move", "unsup_dup"}
               /\ \A i \in 1..Len(placed) : placed[i].src # p
               /\ p \notin DOMAIN fs
                    => /\ AtTarget(p)
                       /\ IsRelativeTo(outcome[p].target, UnsupportedDir)
               /\ p \in DOMAIN fs
                    => /\ AtOrigin(p)
                       /\ (outcome[p].raised \/ outcome[p].route = "unsup_dup")

\* A document whose classification failed has been moved to unsupported/, and
\* another one was removed because its bytes were already there.
C6_Witness ==
    \E p, q \in DOMAIN orig :
        /\ FailedDocument(p) /\ FailedDocument(q)
        /\ outcome[p].route = "unsup_move" /\ p \notin DOMAIN fs
        /\ outcome[q].route = "unsup_dup" /\ q \notin DOMAIN fs

\* C20: a document for which no name could be made (categorize_document
\* raised for an empty filename, or the pipeline found no filename or category
\* in its state) is not silently discarded: when process has ended it was not
\* placed in a category directory, and it is unchanged at its original path
\* or a complete copy of it lies under unsupported/.
C20_EmptyNameNotDiscarded ==
    \A p \in DOMAIN orig :
        (Ended(p) /\ outcome[p].why \in {"emptyname", "noname"})
            => /\ \A i \in 1..Len(placed) : placed[i].src # p
               /\ \/ AtOrigin(p)
                  \/ \E q \in OutputCopies(p) : IsRelativeTo(q, UnsupportedDir)

\* One document without a name has been moved to unsupported/, and another
\* one is still at its original path because its relocation raised.
C20_Witness ==
    \E p, q \in DOMAIN orig :
        /\ Ended(p) /\ outcome[p].why = "emptyname"
        /\ outcome[p].route = "unsup_move" /\ p \notin DOMAIN fs
        /\ \E r \in OutputCopies(p) : IsRelativeTo(r, UnsupportedDir)
        /\ Ended(q) /\ outcome[q].why \in {"emptyname", "noname"}
        /\ AtOrigin(q) /\ outcome[q].raised

\* ------------------------------------------------------- watcher properties
Handed(p) == handoffs[p].n > 0

\* C7: a path is handed to the pipeline only when at least one full tick
\* interval has elapsed since the last write to it: between the write and the
\* hand-off the monitoring loop has slept at least once, whatever events and
\* ticks occurred.
C7_HandoffAfterQuietTick ==
    \A p \in WatchFiles : Handed(p) => handoffs[p].idle >= 1

\* C8: every tracked file that continues to exist and has stopped changing is
\* eventually handed to the pipeline, even if no further filesystem event is
\* delivered after its last change.
C8_StableFileEventuallyHanded ==
    \A p \in WatchFiles :
        (DictHas(tracked_files, p) /\ p \in DOMAIN wfs /\ p \notin wopen)
            ~> Handed(p)

\* C9: a path whose hand-off failed does not leave tracking without a second
\* attempt: after a first failed hand-off the file, still in place, has a
\* tracked record.
C9_RetryAfterFailure ==
    \A p \in WatchFiles :
        (last_result[p] = "failed" /\ handoffs[p].n = 1 /\ p \in DOMAIN wfs)
            => DictHas(file_states, p)

\* C10: no path stays tracked beyond the maximum tracking duration: a record
\* older than the duration is dropped by the next check, so no tracked record
\* is ever more than one tick older than that. The duration is scaled to two
\* ticks of the monitoring loop.
C10_TrackingBounded ==
    \A p \in WatchFiles :
        DictHas(file_states, p) => age[p] <= 2 + 1



\* C16: no file under the output root is ever handed to the organizer, neither
\* by the startup sweep nor by live monitoring, also when the output root lies
\* inside the watched tree.
C16_OutputNeverHanded ==
    \A p \in WatchFiles : Handed(p) => ~IsRelativeTo(p, output_path)

\* The output root lies inside the watched tree, the file under it has been
\* seen and passed over, and the other file has been handed to the organizer.
C16_Witness ==
    /\ output_path = WatchSub
    /\ WatchB \in DOMAIN wfs
    /\ last_result[WatchB] = "output"
    /\ Handed(WatchA)


\* C17: when the classifier answers with a folder that is not in the list of
\* categories, the file is placed under misc/, not under a directory named
\* after the unknown value.
C17_UnknownFolderToMisc ==
    \A i \in 1..Len(placed) :
        (/\ placed[i].base.dir = OutputRoot \o <<UnknownFolder>>
         /\ placed[i].dup = NoPath)
        => placed[i].dst.dir = OutputRoot \o <<"misc">>

\* ------------------------------------------------------- sweep properties
\* C11: one file's failure does not halt the startup sweep: the loop of
\* process_existing_files never ends on an exception while files of the input
\* tree are still waiting to be processed.
C11_FailureDoesNotHaltSweep == pc = "halted" => todo = {}



\* C15: in the startup sweep every file is processed before any file at a
\* shallower directory depth: while a file is being processed no deeper file
\* is still waiting.
C15_DeepestFirst ==
    state.original_path # NoPath =>
        \A q \in todo : Len(q.dir) <= Len(state.original_path.dir)

ChainDirs ==
    {SubSeq(cleanup_log.start, 1, k) :
        k \in (Len(stop_path) + 1)..Len(cleanup_log.start)}

\* The number of entries directory d had before the last cleanup.
EntriesBefore(d) ==
    Cardinality({p \in cleanup_log.files : p.dir = d})
        + Cardinality(SubDirs(cleanup_log.dirs, d))

\* The last operation took the last file out of a subtree that was a chain of
\* directories: each held the next directory of the chain and nothing else,
\* the deepest held only the file.
LastFileOfChainPlaced ==
    /\ cleanup_log.by \in {"remove", "organizer"}
    /\ \A d \in ChainDirs : EntriesBefore(d) = 1

C14_SidecarOnlyDirRemoved ==
    LET start == cleanup_log.start
    IN (/\ cleanup_log.by # "none"
        /\ start \in cleanup_log.dirs
        /\ start # stop_path
        /\ IsPrefix(stop_path, start)
        /\ FilesIn(fs, start) = {}
        /\ SubDirs(cleanup_log.dirs, start) = {start \o <<SidecarName>>})
       => start \notin dirs


\* ------------------------------------------------ rate limiter properties
\* The calls admitted in the window of time_window seconds that starts at t.
AdmittedIn(t) ==
    {i \in DOMAIN admissions :
        t <= admissions[i].at /\ admissions[i].at < t + rate_limiter.time_window}

\* C18: in every interval of length time_window at most max_calls calls are
\* admitted; a call that arrives at capacity is admitted once the oldest
\* admitted call has left the window, no sooner, and it is not dropped: its
\* timestamp is the last of the deque.
C18_RateLimitBound ==
    /\ \A t \in 0..MaxClock : Cardinality(AdmittedIn(t)) <= rate_limiter.max_calls
    /\ \A i \in DOMAIN admissions :
          IF admissions[i].full
          THEN admissions[i].at >= admissions[i].oldest + rate_limiter.time_window
          ELSE admissions[i].at = admissions[i].arrived
    /\ admissions # <<>> =>
          /\ rate_limiter.calls # <<>>
          /\ rate_limiter.calls[Len(rate_limiter.calls)]
                = admissions[Len(admissions)].at

\* A call arrived at capacity, waited and was admitted.
C18_Witness ==
    \E i \in DOMAIN admissions :
        /\ admissions[i].full
        /\ admissions[i].at > admissions[i].arrived
        /\ rate_limiter.max_calls = MaxCalls


\* ------------------------------------------------------ naming properties
\* C19: naming is idempotent: the normalization applied to a generated
\* filename returns that filename unchanged.
C19_NamingIdempotent == naming.step = 2 => naming.again = naming.filename

\* A filename that differs from the joined answer has been normalized again.
C19_Witness ==
    /\ naming.step = 2
    /\ naming.filename # <<>>
    /\ naming.filename # naming.topic
    /\ Len(naming.topic) = MaxLen
    /\ naming.date = <<>>
    /\ naming.owner = <<>>

\* --------------------------------------------- ensure_unique_path properties
\* The base path with version number n appended to its stem.
Versioned(base, n) == [base EXCEPT !.sfx = @ \o <<n>>]

\* C21: ensure_unique_path(base) returns base when base does not exist;
\* otherwise it returns stem_N.ext, in the same directory and with the same
\* extension, for the smallest N >= 1 whose path does not exist, whatever
\* versions exist; the returned path does not exist when it is returned.
C21_EnsureUniquePath ==
    [][(pc = "unique" /\ pc' = "returned")
          => /\ new_path' \notin DOMAIN fs'
             /\ new_path \notin DOMAIN fs => new_path' = new_path
             /\ new_path \in DOMAIN fs
                  => \E N \in 1..(MaxFiles + 1) :
                        /\ new_path' = Versioned(new_path, N)
                        /\ \A k \in 1..(N - 1) : Versioned(new_path, k) \in DOMAIN fs]_vars

\* ensure_unique_path has returned version 3 of a base path of which versions
\* 1 and 2 exist, while a higher version exists too (a gap at 3).
C21_Witness ==
    /\ pc = "returned"
    /\ \E b \in UniqueBases :
          /\ new_path = Versioned(b, 3)
          /\ {b, Versioned(b, 1), Versioned(b, 2), Versioned(b, 4)} \subseteq DOMAIN fs

\* ----------------------------------------------------------- stop properties
\* C22: cooperative stop. Once stop() has been called the running flag stays
\* false, and after the monitoring loop has observed the flag and left, no
\* file is handed to organize_file any more, by the loop or by a notification
\* callback.
C22_NoHandoffAfterStop ==
    [][/\ stop_pc # "none" => ~running'
       /\ tick_pc = "exit" => handoffs' = handoffs]_vars

\* ----------------------------------------------------------- race properties
\* C23: access to the file-state map is serialized: the monitoring loop and a
\* notification callback are never both inside a stability check of the same
\* path's record, and no check removes a record that is already removed.
C23_ChecksSerialized ==
    /\ checking["tick"].pc = "idle" \/ checking["event"].pc = "idle"
    /\ \A t \in {"tick", "event"} : checking[t].pc # "KeyError"

\* ---------------------------------------------------- invocation properties
\* C24: pipeline state is per invocation. Each of two interleaved calls of
\* process on disjoint paths ends as it does when run alone: it returns
\* <category>/<name of its own document>, that file holds the document's
\* bytes, and the document has left the input tree.
C24_InvocationsIndependent ==
    \A t \in DOMAIN invocations :
        invocations[t].pc = "done"
            => LET p == invocations[t].file_path
                   target == MkPath(<<"out", "work">>,
                                    IF p = FileA THEN "n1" ELSE "n2", <<>>, p.ext)
               IN /\ ~invocations[t].raised
                  /\ invocations[t].returned = target
                  /\ target \in DOMAIN fs /\ fs[target] = orig[p]
                  /\ p \notin DOMAIN fs

\* ------------------------------------------------- temporary-copy properties
\* C25: when the processing of a file has ended, by success, by duplicate
\* skip or by any failure, no temporary working copy created for that file
\* is left on disk.
C25_TempCopiesDeleted ==
    \A p \in DOMAIN orig : Ended(p) => p \notin temps

\* ------------------------------------------------ stable-counter properties
\* C26: the stable counter of a tracked path counts the consecutive checks
\* that observed no change. A check raises the counter only when the file's
\* size and modification time both equal the stored ones, and a tracked path
\* is handed to organize_file only in such a check and only when it brings
\* the counter to at least 2. (A check that follows a created event for the
\* same path in the same step starts from a new record and is left out.)
C26_StableCounter ==
    [][\A p \in WatchFiles :
         LET fresh == events # <<>> /\ Head(events).kind = "created"
                      /\ Head(events).path = p
             Unchanged(rec) == /\ p \in DOMAIN wfs
                               /\ rec.size = wfs[p].st_size
                               /\ rec.last_modified = wfs[p].st_mtime
             Counted(old, new) ==
                 /\ (DictHas(old, p) /\ DictHas(new, p) /\ ~fresh
                     /\ new.val[p].stable_count > old.val[p].stable_count)
                        => Unchanged(old.val[p])
                 /\ (DictHas(old, p) /\ ~fresh /\ handoffs'[p].n > handoffs[p].n)
                        => /\ Unchanged(old.val[p])
                           /\ old.val[p].stable_count + 1 >= 2
         IN /\ Counted(tracked_files, tracked_files')
            /\ Counted(file_states, file_states')]_vars

\* ----------------------------------------------------- duplicate properties
\* C27: find_duplicate_by_hash(p), as called by move_to_destination, returns
\* the smallest of the stored paths under p's hash that exist with p's size,
\* and none only when no stored path under that hash has p's size.
C27_SmallestStoredMatch ==
    [][(pc = "move" /\ pc' = "copy")
          => LET p == state.original_path
                 h == HashOf(fs[p])
                 stored == IF h \in DOMAIN CurHashDict
                           THEN {CurHashDict[h][i] : i \in 1..Len(CurHashDict[h])}
                           ELSE {}
                 matches == {q \in stored : /\ q \in DOMAIN fs
                                            /\ SizeOf(fs[q]) = SizeOf(fs[p])}
             IN outcome'[p].dup = IF matches = {} THEN NoPath
                                  ELSE SortPaths(matches)[1]]_vars

\* C28: every file the program has placed under the output root, in a
\* category directory or in the unsupported area, is in the index under its
\* hash with its size as soon as the processing of its document has ended.
C28_PlacedIsIndexed ==
    \A p \in DOMAIN outcome :
        LET o == outcome[p]
            h == HashOf(orig[p])
        IN (Ended(p) /\ ~o.raised /\ o.route \in {"placed", "unsup_move"})
              => /\ h \in DOMAIN file_hash_dict
                 /\ \E i \in 1..Len(file_hash_dict[h]) : file_hash_dict[h][i] = o.target
                 /\ o.target \in DOMAIN file_size_dict
                 /\ file_size_dict[o.target] = SizeOf(orig[p])

\* C29: deduplication inside the unsupported area. When move_to_unsupported
\* is called for a file while a complete file with identical bytes lies in
\* the unsupported directory, whether it was there at startup or was moved
\* there earlier in the run, the call adds no file to the unsupported
\* directory.
C29_UnsupportedDeduplicated ==
    [][(/\ pc = "except" /\ pc' = "done"
        /\ remove_input_files
        /\ \E q \in DOMAIN fs : /\ IsRelativeTo(q, UnsupportedDir)
                                /\ fs[q] = fs[state.original_path])
          => {q \in DOMAIN fs' : IsRelativeTo(q, UnsupportedDir)}
                = {q \in DOMAIN fs : IsRelativeTo(q, UnsupportedDir)}]_vars

\* C30: when compute_hash has failed for the candidate or for an existing
\* output file during the duplicate check of a document, the check answers
\* "no duplicate": the document is not removed as a duplicate.
C30_NoHashNoDuplicate ==
    \A p \in DOMAIN outcome :
        outcome[p].why = "nohash" => outcome[p].route # "duplicate"

\* ------------------------------------------------- copy-failure properties
\* C31: when the copy to the destination fails with an OS error, the file
\* system is as before the copy (the original in place with its content,
\* nothing at the destination, not even a partial file) and the hash index
\* is unchanged.
C31_FailedCopyLeavesNothing ==
    [][(pc = "copy" /\ outcome'[state.original_path].route = "copyfail")
          => /\ fs' = fs
             /\ file_hash_dict' = file_hash_dict
             /\ file_size_dict' = file_size_dict]_vars

\* ------------------------------------------------------- index properties
\* C32: index invariant. Every hash key of the index maps to a non-empty
\* list of paths in strictly ascending order (so without repetition), and
\* every listed path is a file whose content has that hash and whose size is
\* the one recorded for the path.
C32_IndexInvariant ==
    \A h \in DOMAIN file_hash_dict :
        LET paths == file_hash_dict[h]
        IN /\ paths # <<>>
           /\ \A i, j \in 1..Len(paths) : i < j => PathLess(paths[i], paths[j])
           /\ \A i \in 1..Len(paths) :
                 /\ paths[i] \in DOMAIN fs
                 /\ HashOf(fs[paths[i]]) = h
                 /\ paths[i] \in DOMAIN file_size_dict
                 /\ file_size_dict[paths[i]] = SizeOf(fs[paths[i]])

\* A list built by the scan (two files of the same content) has been extended
\* by _update_hash_dict with a path that sorts before its last element.
C32_Witness ==
    \E h \in DOMAIN file_hash_dict :
        /\ Len(file_hash_dict[h]) >= 3
        /\ file_hash_dict[h][2] \notin initial_out

\* ------------------------------------------------------ arrival properties
\* The creation event of the subdirectory is in the observer's queue.
DirEventQueued ==
    \E i \in 1..Len(events) :
        events[i].is_directory /\ events[i].kind = "created" /\ events[i].path = WatchSub

C34_ExistingDirectoryServed ==
    (/\ WatchB \in DOMAIN wfs
     /\ WatchSub \notin directory_ready
     /\ ~DirEventQueued)
       ~> Handed(WatchB)

\* --------------------------------------------- cleanup safety properties
\* C35: cleanup never removes a directory that contains a file or a
\* subdirectory other than a sidecar folder: every directory removed by a
\* step holds no file afterwards, and each of its subdirectories that is
\* left is a sidecar folder. (A directory with such content therefore stays,
\* and with it everything above it.)
C35_OnlyEmptyDirsRemoved ==
    [][\A d \in dirs \ dirs' :
          /\ FilesIn(fs', d) = {}
          /\ \A e \in SubDirs(dirs', d) : e[Len(e)] = SidecarName]_vars

\* The last cleanup removed its start directory and stopped at the parent,
\* which is below the input root and holds a file.
C35_Witness ==
    /\ cleanup_log.by # "none"
    /\ cleanup_log.start \in cleanup_log.dirs
    /\ cleanup_log.start \notin dirs
    /\ Parent(cleanup_log.start) \in dirs
    /\ Parent(cleanup_log.start) # stop_path
    /\ FilesIn(fs, Parent(cleanup_log.start)) # {}

\* C36: a tracked file has failed at most max_retries times in the handler;
\* once it has, the handler does not pass it to the organizer again, and the
\* check that marks it done removes it from tracking; a path marked done is
\* not passed to the organizer again.
C36_BoundedRetry ==
    [][\A p \in WatchFiles :
          /\ DictHas(tracked_files', p) =>
                tracked_files'.val[p].retries <= max_retries
          /\ (DictHas(tracked_files, p)
              /\ tracked_files.val[p].retries >= max_retries) =>
                /\ handoffs'[p] = handoffs[p]
                /\ last_result'[p] = last_result[p]
                /\ p \in stable_files' => ~DictHas(tracked_files', p)
          /\ p \in stable_files =>
                /\ handoffs'[p] = handoffs[p]
                /\ last_result'[p] = last_result[p]]_vars

\* A file failed max_retries times, was marked done and is tracked no more.
C36_Witness ==
    \E p \in WatchFiles :
        /\ p \in stable_files
        /\ last_result[p] = "failed"
        /\ handoffs[p].via = "event"
        /\ ~DictHas(tracked_files, p)
        /\ p \in DOMAIN wfs

\* C37: when the monitor's handler drops the record of a file that exists,
\* has not timed out and has not used up its retries, it has passed the file
\* to the organizer in that step; this holds also for a new file at a path that
\* was handed off before.
C37_RecreatedTrackedAfresh ==
    [][\A p \in WatchFiles :
          (/\ DictHas(tracked_files, p)
           /\ ~DictHas(tracked_files', p)
           /\ p \in DOMAIN wfs
           /\ tracked_files.val[p].age <= stability_timeout
           /\ tracked_files.val[p].retries = 0)
          => handoffs'[p].n > handoffs[p].n]_vars

\* C38: a file that is in the input tree after the startup sweep and was not
\* seen by the sweep is eventually handed to the organizer.
C38_NoFileMissedAtStart ==
    (/\ tick_pc = "swept"
     /\ WatchA \in DOMAIN wfs
     /\ last_result[WatchA] = "none") ~> Handed(WatchA)

\* --------------------------------------------------- confinement properties
\* C39: a call of move_file, copy_file or remove_file deletes only its source,
\* and only a source under the input root with remove_input_files set; it
\* writes only its destination, and only a destination under the output root;
\* a call with a source outside the input root, with a destination outside the
\* output root, or a move or remove with remove_input_files False, raises
\* ValueError and changes neither the files, the directories nor the index.
C39_OperatorConfined ==
    [][placed' # placed =>
         LET call == placed'[1]
             violates ==
                 \/ call.op \in {"move", "remove"} /\ ~remove_input_files
                 \/ ~IsRelativeTo(call.src, InputRoot)
                 \/ call.op # "remove" /\ ~IsRelativeTo(call.dst, OutputRoot)
         IN /\ violates =>
                 /\ call.raised = "ValueError"
                 /\ fs' = fs /\ dirs' = dirs
                 /\ file_hash_dict' = file_hash_dict
                 /\ file_size_dict' = file_size_dict
            /\ \A q \in DOMAIN fs \ DOMAIN fs' :
                 /\ q = call.src
                 /\ call.op \in {"move", "remove"}
                 /\ IsRelativeTo(q, InputRoot)
                 /\ remove_input_files
            /\ \A q \in DOMAIN fs' :
                 (q \notin DOMAIN fs \/ fs'[q] # fs[q]) =>
                    /\ q = call.dst
                    /\ call.op \in {"move", "copy"}
                    /\ IsRelativeTo(q, OutputRoot)
                    /\ IsRelativeTo(call.src, InputRoot)
            /\ ~remove_input_files => dirs' = dirs]_vars

\* A move of an input file to a path outside the output root was refused,
\* with remove_input_files set.
C39_Witness ==
    /\ placed # <<>>
    /\ placed[1].op = "move"
    /\ placed[1].raised = "ValueError"
    /\ remove_input_files
    /\ IsRelativeTo(placed[1].src, InputRoot)
    /\ ~IsRelativeTo(placed[1].dst, OutputRoot)

\* ----------------------------------------------------- placement properties
\* C40: when a call of organize_file moves its document to the path it
\* selected, no file exists at that path.
C40_NoOverwrite ==
    [][\A t \in DOMAIN invocations :
          (invocations[t].pc = "save" /\ invocations'[t].pc = "done")
          => invocations[t].returned \notin DOMAIN fs]_vars

====
